---------------------------- MODULE Spec2Model ----------------------------
(***************************************************************************)
(* Touchpoint haptic controller: filters, effects, handlers, the hardware  *)
(* driver (UART device + UDP emulator), the image tracking tick loop and   *)
(* the screen-capture loop.                                                *)
(*                                                                         *)
(* Numbers: elevations, amplitudes and depths are fixed-point, in          *)
(* hundredths (0.37 is 37); frequencies are in Hz.                         *)
(***************************************************************************)
EXTENDS Integers, Sequences, FiniteSets, TLC

VARIABLES
    \* ---- filters.py: the last matches() call
    fCall,          \* "none" | "object" | "global"
    fFilter,        \* the combo filter that was asked
    fObj,           \* the object it was asked about
    fResult,        \* what matches() returned
    \* ---- effects.py: the last ComboEffect call
    eCall,          \* "none" | "done"
    eEffects,       \* self.effects of the ComboEffect that was called
    eInvoked,       \* positions in self.effects of the sub-effects invoked, in order
    eRaised,        \* the call raised into its caller
    \* ---- hardware_driver.py
    drv,            \* the HardwareDriver object's fields
    ipc,            \* where initialize() is
    timeout_count,  \* _wait_for_ping: attempts made
    response,       \* _wait_for_ping: a PING was received
    ppc,            \* where the emulator PING callback is
    was_connected,  \* _handle_emulator_ping: emulator_connected on entry
    lastCall,       \* the most recent call of a public send operation
    prevCall,       \* the operation and first argument of the call before it
    opCount,        \* public send operations called so far
    uartSent,       \* headers of the packets transmitted on the UART channel so far
    terminated,     \* terminate() was called
    hsSent,         \* the packets _wait_for_ping transmitted on the UART channel, in order
    lastPing,       \* the handling of an emulator PING that has just ended
    speedBeforePing,\* the speed last set while no emulator was connected
    udpFirst,       \* the first packet transmitted on the UDP channel: "none", "PING", "other"
    \* ---- touchpoint.py: GlobalPlugin, its mouse tracking and capture threads
    plugin,         \* the GlobalPlugin object's fields
    tpc,            \* where the mouse tracking thread is in its tick
    mouse_obj,      \* the object under the pointer in this tick
    inside,         \* the pointer is within image_region's bounds in this tick
    startId,        \* current_image_id when this tick began
    events,         \* the image transitions dispatched in this tick, in order
    tickPkts,       \* the packets sent on self.core in this tick, in order
    scpc,           \* where the screen capture thread is in its loop body
    grabbed,        \* the region the capture thread last passed to its capture call
    mapRegion,      \* the region self.depth_map was captured from ("none": no map)
    lastPulse,      \* the image pulse transmitted last: "none", "enter" or "leave"
    lastElevation,  \* the value of the ELEVATION packet transmitted last
    \* ---- handlers.py: GraphicHandler, and the capture scheduler it registers with
    regions,        \* the capture region registry: handler -> region or "none"
    cpc,            \* where the capture scheduler is in its pass
    snapshot,       \* the entries of the pass's snapshot not yet serviced
    buffer,         \* the depth the captured buffer has at the pointer, -1: no buffer
    gone,           \* the registry lacked the entry's handler when it was checked
    cbCall,         \* the most recent capture callback invocation
    watch,          \* what happened since a region was removed during a pass
    \* ---- handlers.py: HandlerManager, the handlers, and the dispatch that calls them
    handlers,       \* HandlerManager.handlers: the object handlers, in registration order
    sbh,            \* the registered ScreenBorderHandler's fields
    hCall,          \* the handle_event / trigger_event call that has just ended
    dispatch,       \* the dispatch over the registered handlers that has just ended
    \* ---- touchpoint.py: GlobalPlugin's startup, threads and terminate
    life,           \* enabled, the port, the startup's and terminate's position, the threads
    \* ---- handlers.py: HandlerManager instances and the list objects they hold
    mgr,            \* the list objects, each manager's fields, each handler's plugin
    \* ---- hardware_emulator.py and the UDP packets between it and the driver
    emulator,       \* the emulator's fields
    net,            \* the packets in flight each way, the handler's unsent packets
    \* ---- testing/mouse_emulator_test.py: the handlers' globals and the main loop
    harness         \* the accumulators, the button flags, the main loop's locals and position

filterVars == <<fCall, fFilter, fObj, fResult>>

effectVars == <<eCall, eEffects, eInvoked, eRaised>>

driverVars == <<drv, ipc, timeout_count, response, ppc, was_connected, lastCall,
                prevCall, opCount, uartSent, terminated, hsSent, lastPing,
                speedBeforePing, udpFirst>>

tickVars == <<plugin, tpc, mouse_obj, inside, startId, events, tickPkts, scpc, grabbed,
              mapRegion, lastPulse, lastElevation>>

captureVars == <<regions, cpc, snapshot, buffer, gone, cbCall, watch>>

handlerVars == <<handlers, sbh, hCall, dispatch>>

vars ==
    <<filterVars, effectVars, driverVars, tickVars, captureVars, handlerVars, life, mgr,
      emulator, net, harness>>

\* What the actions of one part leave alone
notFilterVars ==
    <<effectVars, driverVars, tickVars, captureVars, handlerVars, life, mgr, emulator, net, harness>>
notEffectVars ==
    <<filterVars, driverVars, tickVars, captureVars, handlerVars, life, mgr, emulator, net, harness>>
notDriverVars ==
    <<filterVars, effectVars, tickVars, captureVars, handlerVars, life, mgr, emulator, net, harness>>
notTickVars ==
    <<filterVars, effectVars, driverVars, captureVars, handlerVars, life, mgr, emulator, net, harness>>

----------------------------------------------------------------------------
(* Bounds of the model *)

\* longest include / exclude list of a combo filter
MaxFilters == 2

\* public send operations called on the driver in one run
MaxOps == 2

\* longest effect list of a ComboEffect
MaxEffects == 3

\* The UDP packets that can be in flight in one direction
MaxInFlight == 3

\* The mouse and button packets the test harness receives
MaxPackets == 3

----------------------------------------------------------------------------
(* NVDA objects, as far as the addon reads them *)

\* No object (Python None)
NoObj == [hwnd |-> 0, child |-> 0, loc |-> "none", role |-> "NoObject", ia2 |-> "absent"]

\* controlTypes.Role.GRAPHIC, controlTypes.Role.IMAGEMAP
IMAGE_ROLES == {"GRAPHIC", "IMAGEMAP"}

\* Objects differing in what the graphic test reads: role and IA2 attributes.
\* role "absent": the object has no role attribute (or it is None).
FilterObjects ==
    {NoObj} \cup
    [hwnd : {1}, child : {0}, loc : {"R1"},
     role : {"absent", "GRAPHIC", "IMAGEMAP", "BUTTON"},
     ia2 : {"absent", "dict_video", "str_video", "dict_other"}]

----------------------------------------------------------------------------
(* filters.py *)

ObjectFilter == [kind |-> "ObjectFilter", include |-> <<>>, exclude |-> <<>>]
GraphicFilter == [kind |-> "GraphicFilter", include |-> <<>>, exclude |-> <<>>]
GlobalFilter == [kind |-> "GlobalFilter", include |-> <<>>, exclude |-> <<>>]

ComboObjectFilter(include, exclude) ==
    [kind |-> "ComboObjectFilter", include |-> include, exclude |-> exclude]

ComboGlobalFilter(include, exclude) ==
    [kind |-> "ComboGlobalFilter", include |-> include, exclude |-> exclude]

\* GraphicFilter.matches: no object or no role is False; a GRAPHIC or IMAGEMAP
\* role, or a video tag in the IA2 attributes (dict or string), is True.
GraphicFilterMatches(obj) ==
    IF obj = NoObj THEN FALSE
    ELSE IF obj.role = "absent" THEN FALSE
    ELSE IF obj.role \in IMAGE_ROLES THEN TRUE
    ELSE obj.ia2 \in {"dict_video", "str_video"}

RECURSIVE FilterMatches(_, _)
RECURSIVE IncludeLoop(_, _)
RECURSIVE ExcludeLoop(_, _)

\* for filter in self.include: if not filter.matches(...): return False
\* TRUE when the loop falls through.
IncludeLoop(include, obj) ==
    IF include = <<>> THEN TRUE
    ELSE IF ~FilterMatches(Head(include), obj) THEN FALSE
    ELSE IncludeLoop(Tail(include), obj)

\* for filter in self.exclude: if filter.matches(...): return False
\* TRUE when the loop falls through.
ExcludeLoop(exclude, obj) ==
    IF exclude = <<>> THEN TRUE
    ELSE IF FilterMatches(Head(exclude), obj) THEN FALSE
    ELSE ExcludeLoop(Tail(exclude), obj)

\* A plausible slip: the exclude loop vetoes on a filter that does not match.
ComboObjectFilterMatches_ExcludeInverted(include, exclude, obj) ==
    /\ IncludeLoop(include, obj)
    /\ \A i \in 1..Len(exclude) : FilterMatches(exclude[i], obj)

ComboObjectFilterMatches(include, exclude, obj) ==
    IF ~IncludeLoop(include, obj) THEN FALSE
    ELSE IF ~ExcludeLoop(exclude, obj) THEN FALSE
    ELSE TRUE

ComboGlobalFilterMatches(include, exclude) ==
    IF ~IncludeLoop(include, NoObj) THEN FALSE
    ELSE IF ~ExcludeLoop(exclude, NoObj) THEN FALSE
    ELSE TRUE

FilterMatches(f, obj) ==
    CASE f.kind = "ObjectFilter" -> TRUE
      [] f.kind = "GlobalFilter" -> TRUE
      [] f.kind = "GraphicFilter" -> GraphicFilterMatches(obj)
      [] f.kind = "ComboObjectFilter" -> ComboObjectFilterMatches(f.include, f.exclude, obj)
      [] f.kind = "ComboGlobalFilter" -> ComboGlobalFilterMatches(f.include, f.exclude)

\* Sequences over S of length at most n
SeqUpTo(S, n) == UNION {[1..k -> S] : k \in 0..n}

\* The filters a combo's lists are drawn from: the leaves and one-level combos.
SubObjectFilters ==
    {ObjectFilter, GraphicFilter,
     ComboObjectFilter(<<>>, <<GraphicFilter>>)}

SubGlobalFilters ==
    {GlobalFilter,
     ComboGlobalFilter(<<>>, <<GlobalFilter>>),
     ComboGlobalFilter(<<GlobalFilter>>, <<>>)}

\* The combo filters that are asked, each with the object it is asked about.
FilterInit ==
    /\ fCall = "none"
    /\ fResult = TRUE
    /\ \/ /\ fFilter \in {ComboObjectFilter(inc, exc) :
                            inc \in SeqUpTo(SubObjectFilters, MaxFilters),
                            exc \in SeqUpTo(SubObjectFilters, MaxFilters)}
          /\ fObj \in FilterObjects
       \/ /\ fFilter \in {ComboGlobalFilter(inc, exc) :
                            inc \in SeqUpTo(SubGlobalFilters, MaxFilters),
                            exc \in SeqUpTo(SubGlobalFilters, MaxFilters)}
          /\ fObj = NoObj

\* ComboObjectFilter(include, exclude).matches(plugin, obj)
ObjectFilterCall ==
    /\ fCall = "none"
    /\ fFilter.kind = "ComboObjectFilter"
    /\ fCall' = "object"
    /\ fResult' = ComboObjectFilterMatches(fFilter.include, fFilter.exclude, fObj)
    /\ UNCHANGED <<fFilter, fObj>>
    /\ UNCHANGED notFilterVars

\* ComboGlobalFilter(include, exclude).matches(plugin)
GlobalFilterCall ==
    /\ fCall = "none"
    /\ fFilter.kind = "ComboGlobalFilter"
    /\ fCall' = "global"
    /\ fResult' = ComboGlobalFilterMatches(fFilter.include, fFilter.exclude)
    /\ UNCHANGED <<fFilter, fObj>>
    /\ UNCHANGED notFilterVars

FilterNext == ObjectFilterCall \/ GlobalFilterCall

----------------------------------------------------------------------------
(* hardware_driver.py *)

\* while ... timeout_count < 10
MaxPingAttempts == 10

\* self.max_elevation_speed = 2.0
DefaultSpeed == 200

Pkt(h, v1, v2, v3, guaranteed) ==
    [h |-> h, v1 |-> v1, v2 |-> v2, v3 |-> v3, guaranteed |-> guaranteed]

PingPkt == Pkt("PING", 0, 0, 0, FALSE)
StatusPkt(hw) == Pkt("STATUS", IF hw THEN 1 ELSE 0, 0, 0, FALSE)
ElevationPkt(v) == Pkt("ELEVATION", v, 0, 0, FALSE)
SpeedPkt(v, guaranteed) == Pkt("ELEVATION_SPEED", v, 0, 0, guaranteed)
VibrationPkt(a, f, d) == Pkt("VIBRATION", a, f, d, FALSE)

\* HardwareDriver.__init__
NewDriver ==
    [hardware_connected |-> FALSE,
     emulator_connected |-> FALSE,
     udp_running |-> FALSE,
     elevation |-> 0,
     max_elevation_speed |-> DefaultSpeed]

\* What a driver method did: the driver after it, the packets it transmitted on
\* each channel, and whether it raised into its caller.
Res(d, uart, udp, raised) == [drv |-> d, uart |-> uart, udp |-> udp, raised |-> raised]

\* The channels a transport failure can strike during a call: a subset of
\* {"uart", "udp"}; creating or sending a packet on a struck channel raises.
Faults(d) ==
    SUBSET ({"uart" : x \in {d.hardware_connected} \ {FALSE}} \cup
            {"udp" : x \in {d.emulator_connected} \ {FALSE}})

\* A plausible slip: a zero vibration treated as nothing to do.
SendVibration_SuppressZero(d, amplitude, frequency, duration, fault) ==
    IF amplitude = 0 /\ frequency = 0 /\ duration = 0
    THEN Res(d, <<>>, <<>>, FALSE)
    ELSE Res(d,
             IF d.hardware_connected /\ "uart" \notin fault
                 THEN <<VibrationPkt(amplitude, frequency, duration)>> ELSE <<>>,
             IF d.emulator_connected /\ "udp" \notin fault /\ "uart" \notin fault
                 THEN <<VibrationPkt(amplitude, frequency, duration)>> ELSE <<>>,
             fault # {})

\* HardwareDriver.send_vibration: no try/except, the UART send comes first.
SendVibration(d, amplitude, frequency, duration, fault) ==
    IF d.hardware_connected /\ "uart" \in fault
    THEN Res(d, <<>>, <<>>, TRUE)
    ELSE LET uart == IF d.hardware_connected
                     THEN <<VibrationPkt(amplitude, frequency, duration)>>
                     ELSE <<>>
         IN  IF d.emulator_connected /\ "udp" \in fault
             THEN Res(d, uart, <<>>, TRUE)
             ELSE Res(d, uart,
                      IF d.emulator_connected
                      THEN <<VibrationPkt(amplitude, frequency, duration)>>
                      ELSE <<>>,
                      FALSE)

\* A plausible slip: a channel whose send failed is marked disconnected.
SendElevation_DemoteOnFailure(d, elevation, fault) ==
    LET d1 == [d EXCEPT !.elevation = elevation,
                        !.hardware_connected = @ /\ "uart" \notin fault,
                        !.emulator_connected = @ /\ "udp" \notin fault]
    IN  Res(d1,
            IF d.hardware_connected /\ "uart" \notin fault
                THEN <<ElevationPkt(elevation)>> ELSE <<>>,
            IF d.emulator_connected /\ "udp" \notin fault
                THEN <<ElevationPkt(elevation)>> ELSE <<>>,
            FALSE)

\* HardwareDriver.send_elevation: the tracked elevation is set first; no
\* try/except, the UART send comes first.
SendElevation(d, elevation, fault) ==
    LET d1 == [d EXCEPT !.elevation = elevation] IN
    IF d1.hardware_connected /\ "uart" \in fault
    THEN Res(d1, <<>>, <<>>, TRUE)
    ELSE LET uart == IF d1.hardware_connected THEN <<ElevationPkt(elevation)>> ELSE <<>>
         IN  IF d1.emulator_connected /\ "udp" \in fault
             THEN Res(d1, uart, <<>>, TRUE)
             ELSE Res(d1, uart,
                      IF d1.emulator_connected THEN <<ElevationPkt(elevation)>> ELSE <<>>,
                      FALSE)

\* HardwareDriver.add_elevation_offset: returns at once when neither channel is
\* connected.
AddElevationOffset(d, offset, fault) ==
    IF ~d.hardware_connected /\ ~d.emulator_connected
    THEN Res(d, <<>>, <<>>, FALSE)
    ELSE SendElevation(d, d.elevation + offset, fault)

\* HardwareDriver.set_max_elevation_speed: the UART branch reads self.core, an
\* attribute HardwareDriver never sets (AttributeError); the UDP branch is
\* wrapped in try/except. self.max_elevation_speed is not assigned.
SetMaxElevationSpeed(d, speed, fault) ==
    IF d.hardware_connected
    THEN Res(d, <<>>, <<>>, TRUE)
    ELSE IF d.emulator_connected /\ "udp" \notin fault
         THEN Res(d, <<>>, <<SpeedPkt(speed, FALSE)>>, FALSE)
         ELSE Res(d, <<>>, <<>>, FALSE)

\* HardwareDriver._send_status_to_emulator: wrapped in try/except.
SendStatusToEmulator(d, fault) ==
    IF ~d.emulator_connected THEN <<>>
    ELSE IF "udp" \in fault THEN <<>>
    ELSE <<StatusPkt(d.hardware_connected)>>

\* HardwareDriver._send_elevation_speed_to_emulator: wrapped in try/except.
SendElevationSpeedToEmulator(d, fault) ==
    IF ~d.emulator_connected THEN <<>>
    ELSE IF "udp" \in fault THEN <<>>
    ELSE <<SpeedPkt(d.max_elevation_speed, FALSE)>>

\* HardwareDriver._send_elevation_speed_to_hardware: wrapped in try/except.
SendElevationSpeedToHardware(d, fault) ==
    IF ~d.hardware_connected THEN <<>>
    ELSE IF "uart" \in fault THEN <<>>
    ELSE <<SpeedPkt(d.max_elevation_speed, TRUE)>>

\* A plausible slip: the elevation speed pushed on every PING.
HandleEmulatorPingSends_AlwaysSpeed(d, was, failing) ==
    IF failing = 1 THEN <<>>
    ELSE <<PingPkt>>
         \o SendStatusToEmulator(d, IF failing = 2 THEN {"udp"} ELSE {})
         \o SendElevationSpeedToEmulator(d, IF failing = 3 THEN {"udp"} ELSE {})

\* _handle_emulator_ping, the try block: the packets sent on UDP, in order.
\* failing: which of the three sends raises (0: none). A PING ack that raises
\* leaves the try block; the status and speed sends catch their own exception.
HandleEmulatorPingSends(d, was, failing) ==
    IF failing = 1 THEN <<>>
    ELSE <<PingPkt>>
         \o SendStatusToEmulator(d, IF failing = 2 THEN {"udp"} ELSE {})
         \o (IF ~was
             THEN SendElevationSpeedToEmulator(d, IF failing = 3 THEN {"udp"} ELSE {})
             ELSE <<>>)

\* No PING handled yet
NoPing == [was_connected |-> FALSE, failing |-> 0, hw |-> FALSE, sent |-> <<>>]

\* A plausible slip: one attempt too many.
WaitLoopContinues_OffByOne(resp, count) == ~resp /\ count <= MaxPingAttempts

\* _wait_for_ping: while not response and timeout_count < 10
WaitLoopContinues(resp, count) == ~resp /\ count < MaxPingAttempts

\* The attempts of _wait_for_ping at which the device's PING can arrive: the
\* first and the last
PingArrivalAttempts == {1, MaxPingAttempts}

Elevations == {0, 37}
Offsets == {10}
VibrationArgs == {<<0, 0, 0>>, <<10, 200, 0>>}
Speeds == {100}

\* A call of a public send operation: its arguments, the transport failure
\* that struck it, the connection flags and tracked elevation it found, the
\* packets it transmitted and whether it raised.
NoCall == [op |-> "none", a1 |-> 0, a2 |-> 0, a3 |-> 0, fault |-> {},
           hw |-> FALSE, emu |-> FALSE, elevation |-> 0,
           uart |-> <<>>, udp |-> <<>>, raised |-> FALSE]

Call(op, a1, a2, a3, fault, pre, r) ==
    [op |-> op, a1 |-> a1, a2 |-> a2, a3 |-> a3, fault |-> fault,
     hw |-> pre.hardware_connected, emu |-> pre.emulator_connected,
     elevation |-> pre.elevation,
     uart |-> r.uart, udp |-> r.udp, raised |-> r.raised]

\* The first packet transmitted on the UDP channel once pkts are sent after
\* first: "none", the "PING" ack, or "other".
FirstUdp(first, pkts) ==
    IF first # "none" \/ pkts = <<>> THEN first
    ELSE IF pkts[1].h = "PING" THEN "PING" ELSE "other"

\* The headers of the packets of a sequence
Headers(pkts) == {pkts[i].h : i \in 1..Len(pkts)}

DriverInit ==
    /\ drv = NewDriver
    /\ ipc = "idle"
    /\ timeout_count = 0
    /\ response = FALSE
    /\ ppc = "idle"
    /\ was_connected = FALSE
    /\ lastCall = NoCall
    /\ prevCall = [op |-> "none", a1 |-> 0]
    /\ opCount = 0
    /\ uartSent = {}
    /\ terminated = FALSE
    /\ hsSent = <<>>
    /\ lastPing = NoPing
    /\ speedBeforePing = DefaultSpeed
    /\ udpFirst = "none"

\* A public send operation was called and did r.
PublicCall(op, a1, a2, a3, fault, r) ==
    /\ opCount < MaxOps
    /\ opCount' = opCount + 1
    /\ prevCall' = [op |-> lastCall.op, a1 |-> lastCall.a1]
    /\ lastCall' = Call(op, a1, a2, a3, fault, drv, r)
    /\ drv' = r.drv
    /\ uartSent' = uartSent \cup Headers(r.uart)
    /\ speedBeforePing' = IF op = "set_max_elevation_speed" /\ ~drv.emulator_connected
                          THEN a1 ELSE speedBeforePing
    /\ udpFirst' = FirstUdp(udpFirst, r.udp)
    /\ UNCHANGED <<ipc, timeout_count, response, ppc, was_connected, terminated, hsSent>>
    /\ lastPing' = NoPing
    /\ UNCHANGED notDriverVars

DoSendVibration ==
    \E args \in VibrationArgs, fault \in Faults(drv) :
        PublicCall("send_vibration", args[1], args[2], args[3], fault,
                   SendVibration(drv, args[1], args[2], args[3], fault))

DoSendElevation ==
    \E v \in Elevations, fault \in Faults(drv) :
        PublicCall("send_elevation", v, 0, 0, fault, SendElevation(drv, v, fault))

DoAddElevationOffset ==
    \E off \in Offsets, fault \in Faults(drv) :
        PublicCall("add_elevation_offset", off, 0, 0, fault,
                   AddElevationOffset(drv, off, fault))

DoSetMaxElevationSpeed ==
    \E speed \in Speeds, fault \in Faults(drv) :
        PublicCall("set_max_elevation_speed", speed, 0, 0, fault,
                   SetMaxElevationSpeed(drv, speed, fault))

\* initialize: self._initialize_udp(); udp.listen succeeds or not (an exception
\* is caught and leaves udp_running False too).
InitializeUdp ==
    /\ ipc = "idle"
    /\ \E listening \in BOOLEAN :
           drv' = [drv EXCEPT !.udp_running = listening]
    /\ ipc' = "begin"
    /\ UNCHANGED <<timeout_count, response, ppc, was_connected, lastCall, prevCall, speedBeforePing,
                   opCount, uartSent, terminated, hsSent>>
    /\ lastPing' = NoPing
    /\ UNCHANGED notDriverVars
    /\ UNCHANGED udpFirst

\* initialize: self.uart.begin(port, baud) fails: hardware_connected = False
UartBeginFails ==
    /\ ipc = "begin"
    /\ drv' = [drv EXCEPT !.hardware_connected = FALSE]
    /\ ipc' = "status"
    /\ UNCHANGED <<timeout_count, response, ppc, was_connected, lastCall, prevCall, speedBeforePing,
                   opCount, uartSent, terminated, hsSent>>
    /\ lastPing' = NoPing
    /\ UNCHANGED notDriverVars
    /\ UNCHANGED udpFirst

\* initialize: the port opened; _wait_for_ping starts (sleep, flush).
UartBeginOk ==
    /\ ipc = "begin"
    /\ ipc' = "wait"
    /\ timeout_count' = 0
    /\ response' = FALSE
    /\ UNCHANGED <<drv, ppc, was_connected, lastCall, prevCall, speedBeforePing,
                   opCount, uartSent, terminated, hsSent>>
    /\ lastPing' = NoPing
    /\ UNCHANGED notDriverVars
    /\ UNCHANGED udpFirst

\* _wait_for_ping: one wait_for_header(H_PING, 1000); a PING arrives or not.
WaitForHeader ==
    /\ ipc = "wait"
    /\ WaitLoopContinues(response, timeout_count)
    /\ \E got \in (IF timeout_count + 1 \in PingArrivalAttempts THEN BOOLEAN ELSE {FALSE}) :
           response' = got
    /\ timeout_count' = timeout_count + 1
    /\ UNCHANGED <<drv, ipc, ppc, was_connected, lastCall, prevCall, speedBeforePing,
                   opCount, uartSent, terminated, hsSent>>
    /\ lastPing' = NoPing
    /\ UNCHANGED notDriverVars
    /\ UNCHANGED udpFirst

\* _wait_for_ping after the loop, a PING received: the acknowledgement is sent
\* (a transport failure raises out of initialize), then
\* _send_elevation_speed_to_hardware runs while hardware_connected is still
\* False, and on return initialize sets hardware_connected.
HandshakeAck ==
    /\ ipc = "wait"
    /\ ~WaitLoopContinues(response, timeout_count)
    /\ response
    /\ \E fails \in BOOLEAN :
        IF fails
        THEN /\ ipc' = "raised"
             /\ UNCHANGED <<drv, uartSent, hsSent>>
        ELSE /\ hsSent' = <<PingPkt>> \o SendElevationSpeedToHardware(drv, {})
             /\ uartSent' = uartSent \cup Headers(hsSent')
             /\ drv' = [drv EXCEPT !.hardware_connected = TRUE]
             /\ ipc' = "status"
    /\ UNCHANGED <<timeout_count, response, ppc, was_connected, lastCall, prevCall, speedBeforePing,
                   opCount, terminated>>
    /\ lastPing' = NoPing
    /\ UNCHANGED notDriverVars
    /\ UNCHANGED udpFirst

\* _wait_for_ping after the loop, no PING: returns False.
HandshakeTimeout ==
    /\ ipc = "wait"
    /\ ~WaitLoopContinues(response, timeout_count)
    /\ ~response
    /\ drv' = [drv EXCEPT !.hardware_connected = FALSE]
    /\ ipc' = "status"
    /\ UNCHANGED <<timeout_count, response, ppc, was_connected, lastCall, prevCall, speedBeforePing,
                   opCount, uartSent, terminated, hsSent>>
    /\ lastPing' = NoPing
    /\ UNCHANGED notDriverVars
    /\ UNCHANGED udpFirst

\* initialize: self._send_status_to_emulator(); return
InitializeStatus ==
    /\ ipc = "status"
    /\ ipc' = "done"
    /\ UNCHANGED <<drv, timeout_count, response, ppc, was_connected, lastCall, prevCall, speedBeforePing,
                   opCount, uartSent, terminated, hsSent>>
    /\ lastPing' = NoPing
    /\ UNCHANGED notDriverVars
    /\ udpFirst' = FirstUdp(udpFirst, SendStatusToEmulator(drv, {}))

\* _handle_emulator_ping, first statements: was_connected = emulator_connected;
\* emulator_connected = True
EmulatorPing ==
    /\ drv.udp_running
    /\ ppc = "idle"
    /\ was_connected' = drv.emulator_connected
    /\ drv' = [drv EXCEPT !.emulator_connected = TRUE]
    /\ ppc' = "respond"
    /\ UNCHANGED <<ipc, timeout_count, response, lastCall, prevCall, speedBeforePing,
                   opCount, uartSent, terminated, hsSent>>
    /\ lastPing' = NoPing
    /\ UNCHANGED notDriverVars
    /\ UNCHANGED udpFirst

\* _handle_emulator_ping, the try block: PING ack, status, and on a new
\* connection the elevation speed. A failing ack skips the rest.
PingRespond ==
    /\ ppc = "respond"
    /\ ppc' = "idle"
    /\ \E failing \in 0..3 :
        lastPing' = [was_connected |-> was_connected,
                     failing |-> failing,
                     hw |-> drv.hardware_connected,
                     sent |-> HandleEmulatorPingSends(drv, was_connected, failing)]
    /\ udpFirst' = FirstUdp(udpFirst, lastPing'.sent)
    /\ UNCHANGED <<drv, ipc, timeout_count, response, was_connected, lastCall, prevCall, speedBeforePing,
                   opCount, uartSent, terminated, hsSent>>
    /\ UNCHANGED notDriverVars

\* HardwareDriver.terminate
Terminate ==
    /\ ~terminated
    /\ terminated' = TRUE
    /\ drv' = [drv EXCEPT !.udp_running = FALSE, !.hardware_connected = FALSE]
    /\ UNCHANGED <<ipc, timeout_count, response, ppc, was_connected, lastCall, prevCall, speedBeforePing,
                   opCount, uartSent, hsSent>>
    /\ lastPing' = NoPing
    /\ UNCHANGED notDriverVars
    /\ UNCHANGED udpFirst

DriverNext ==
    \/ DoSendVibration
    \/ DoSendElevation
    \/ DoAddElevationOffset
    \/ DoSetMaxElevationSpeed
    \/ InitializeUdp
    \/ UartBeginFails
    \/ UartBeginOk
    \/ WaitForHeader
    \/ HandshakeAck
    \/ HandshakeTimeout
    \/ InitializeStatus
    \/ EmulatorPing
    \/ PingRespond
    \/ Terminate

----------------------------------------------------------------------------
(* effects.py *)

\* An effect as ComboEffect sees it: a callable that returns or raises. A leaf
\* (VibrationEffect, GlobalElevationEffect, RelativeElevationEffect, a logging
\* lambda of handler_config) raises in this call or does not.
LeafEffect(raises) == [kind |-> "Effect", raises |-> raises, effects |-> <<>>]

\* ComboEffect.__init__
ComboEffect(effects) == [kind |-> "ComboEffect", raises |-> FALSE, effects |-> effects]

RECURSIVE EffectCall(_)
RECURSIVE ComboLoop(_, _)

\* for effect in self.effects: effect(handler, obj, **kwargs)
\* from position k on: the positions invoked, in order, and whether a call raised.
ComboLoop(effects, k) ==
    IF k > Len(effects) THEN [invoked |-> <<>>, raised |-> FALSE]
    ELSE IF EffectCall(effects[k]) THEN [invoked |-> <<k>>, raised |-> TRUE]
    ELSE LET rest == ComboLoop(effects, k + 1)
         IN  [invoked |-> <<k>> \o rest.invoked, raised |-> rest.raised]

\* A plausible slip: each sub-effect isolated in its own try/except.
ComboEffectCall_Isolated(effects) ==
    [invoked |-> [k \in 1..Len(effects) |-> k], raised |-> FALSE]

\* ComboEffect.__call__
ComboEffectCall(effects) == ComboLoop(effects, 1)

\* effect(handler, obj, **kwargs): TRUE when the call raises
EffectCall(e) ==
    IF e.kind = "ComboEffect" THEN ComboEffectCall(e.effects).raised ELSE e.raises

\* The effects a combo's list is drawn from: leaves and nested combos.
SubEffects ==
    {LeafEffect(FALSE), LeafEffect(TRUE),
     ComboEffect(<<LeafEffect(FALSE)>>),
     ComboEffect(<<LeafEffect(FALSE), LeafEffect(TRUE)>>)}

\* The ComboEffect that is called
EffectInit ==
    /\ eCall = "none"
    /\ eEffects \in SeqUpTo(SubEffects, MaxEffects)
    /\ eInvoked = <<>>
    /\ eRaised = FALSE

\* ComboEffect(effects)(handler, obj)
CallComboEffect ==
    /\ eCall = "none"
    /\ eCall' = "done"
    /\ LET r == ComboEffectCall(eEffects)
       IN  /\ eInvoked' = r.invoked
           /\ eRaised' = r.raised
    /\ UNCHANGED eEffects
    /\ UNCHANGED notEffectVars

EffectNext == CallComboEffect

----------------------------------------------------------------------------
(* touchpoint.py: GlobalPlugin, the mouse tracking thread and the screen    *)
(* capture thread                                                           *)

\* Python None where a number is expected
NoValue == -1

\* No object id (Python None)
NoId == <<>>

\* GlobalPlugin.ELEVATION_SCALE = 0.5
Plugin_ELEVATION_SCALE == 50

\* self.image_roles
image_roles == {"GRAPHIC", "IMAGEMAP"}

\* GlobalPlugin.__init__: the fields the two threads use
NewPlugin ==
    [current_image_obj |-> NoObj,
     current_image_id |-> NoId,
     image_region |-> "none",
     capture_enabled |-> FALSE,
     depth_map |-> NoValue,
     on_border |-> FALSE]

\* The objects objectFromPoint can return: none, or an object with or without
\* a location, an image role, a video tag.
TickObjects ==
    {NoObj} \cup
    [hwnd : {1}, child : {0}, loc : {"none", "R1", "R2"},
     role : {"GRAPHIC", "BUTTON"},
     ia2 : {"absent", "dict_video"}]

\* The depths a captured map can have under the pointer
TickDepths == {0, 80}

\* GlobalPlugin._is_image_object
IsImageObject(obj) ==
    IF obj = NoObj THEN FALSE
    ELSE IF obj.role = "absent" THEN FALSE
    ELSE IF obj.role \in image_roles THEN TRUE
    ELSE obj.ia2 \in {"dict_video", "str_video"}

\* GlobalPlugin._get_object_id: (hwnd, child_id, location), None for no object
GetObjectId(obj) ==
    IF obj = NoObj THEN NoId ELSE <<obj.hwnd, obj.child, obj.loc>>

\* GlobalPlugin._get_elevation_at_position; within: the position is inside
\* image_region's bounds
GetElevationAtPosition(p, within) ==
    IF p.depth_map = NoValue \/ p.image_region = "none" THEN NoValue
    ELSE IF ~within THEN NoValue
    ELSE (p.depth_map * Plugin_ELEVATION_SCALE) \div 100

\* _mouse_tracking_thread: which of the enter / leave branches a tick takes
TransitionBranch(p, obj) ==
    LET is_image == IsImageObject(obj)
        was_on_image == p.current_image_obj # NoObj
        same_image == is_image /\ was_on_image /\ GetObjectId(obj) = p.current_image_id
    IN  IF is_image /\ ~was_on_image THEN "enter"
        ELSE IF ~is_image /\ was_on_image THEN "leave"
        ELSE IF is_image /\ was_on_image /\ ~same_image THEN "switch"
        ELSE "elevation"

Event(ev, id) == [ev |-> ev, id |-> id]

TickInit ==
    /\ plugin = NewPlugin
    /\ tpc = "poll"
    /\ mouse_obj = NoObj
    /\ inside = FALSE
    /\ startId = NoId
    /\ events = <<>>
    /\ tickPkts = <<>>
    /\ scpc = "check"
    /\ grabbed = "unset"
    /\ mapRegion = "none"
    /\ lastPulse = "none"
    /\ lastElevation = NoValue

\* A tick begins: getCursorPos, objectFromPoint, is_image / was_on_image /
\* same_image.
TickPoll ==
    /\ tpc = "poll"
    /\ \E obj \in TickObjects, within \in BOOLEAN :
        /\ mouse_obj' = obj
        /\ inside' = within
        /\ tpc' = TransitionBranch(plugin, obj)
    /\ startId' = plugin.current_image_id
    /\ events' = <<>>
    /\ tickPkts' = <<>>
    /\ UNCHANGED <<plugin, scpc>>
    /\ UNCHANGED <<grabbed, mapRegion, lastPulse, lastElevation, notTickVars>>

\* A leave that forgets to clear the capture region.
HandleImageLeave_KeepsRegion ==
    /\ tpc \in {"leave", "switch"}
    /\ events' = Append(events, Event("leave", plugin.current_image_id))
    /\ plugin' = [plugin EXCEPT !.capture_enabled = FALSE,
                                !.current_image_obj = NoObj,
                                !.current_image_id = NoId,
                                !.depth_map = NoValue]
    /\ \E sent \in 0..2 :
        /\ tickPkts' = tickPkts \o SubSeq(<<VibrationPkt(5, 100, 2), ElevationPkt(0)>>, 1, sent)
        /\ tpc' = IF sent < 2 THEN "elevation"
                  ELSE IF tpc = "switch" THEN "switch_enter"
                  ELSE "elevation"
        /\ lastPulse' = IF sent >= 1 THEN "leave" ELSE lastPulse
        /\ lastElevation' = IF sent = 2 THEN 0 ELSE lastElevation
    /\ mapRegion' = "none"
    /\ UNCHANGED <<mouse_obj, inside, startId, scpc>>
    /\ UNCHANGED <<grabbed, notTickVars>>

\* _handle_image_leave: the tracking state is cleared, then a VIBRATION pulse
\* and ELEVATION 0.0 are sent; a send that raises leaves the try block of the
\* tick (the enter of a switch is then not called).
HandleImageLeave ==
    /\ tpc \in {"leave", "switch"}
    /\ events' = Append(events, Event("leave", plugin.current_image_id))
    /\ plugin' = [plugin EXCEPT !.capture_enabled = FALSE,
                                !.current_image_obj = NoObj,
                                !.current_image_id = NoId,
                                !.image_region = "none",
                                !.depth_map = NoValue]
    /\ \E sent \in 0..2 :
        /\ tickPkts' = tickPkts \o SubSeq(<<VibrationPkt(5, 100, 2), ElevationPkt(0)>>, 1, sent)
        /\ tpc' = IF sent < 2 THEN "elevation"
                  ELSE IF tpc = "switch" THEN "switch_enter"
                  ELSE "elevation"
        /\ lastPulse' = IF sent >= 1 THEN "leave" ELSE lastPulse
        /\ lastElevation' = IF sent = 2 THEN 0 ELSE lastElevation
    /\ mapRegion' = "none"
    /\ UNCHANGED <<mouse_obj, inside, startId, scpc>>
    /\ UNCHANGED <<grabbed, notTickVars>>

\* _handle_image_enter: returns at once for an object without a location;
\* otherwise the object is tracked, its region set and capture enabled,
\* unless reading the location raises (caught, nothing assigned), and in
\* both cases a VIBRATION pulse is sent (a send that raises is caught by the
\* tick).
HandleImageEnter ==
    /\ tpc \in {"enter", "switch_enter"}
    /\ events' = Append(events, Event("enter", GetObjectId(mouse_obj)))
    /\ IF mouse_obj.loc = "none"
       THEN UNCHANGED <<plugin, tickPkts, lastPulse>>
       ELSE \E read \in BOOLEAN, sent \in 0..1 :
            /\ plugin' = IF read
                         THEN [plugin EXCEPT !.current_image_obj = mouse_obj,
                                             !.current_image_id = GetObjectId(mouse_obj),
                                             !.image_region = mouse_obj.loc,
                                             !.capture_enabled = TRUE]
                         ELSE plugin
            /\ tickPkts' = tickPkts \o SubSeq(<<VibrationPkt(8, 150, 3)>>, 1, sent)
            /\ lastPulse' = IF sent = 1 THEN "enter" ELSE lastPulse
    /\ tpc' = "elevation"
    /\ UNCHANGED <<mouse_obj, inside, startId, scpc>>
    /\ UNCHANGED <<grabbed, mapRegion, lastElevation, notTickVars>>

\* The tick's elevation command: with capture enabled and an elevation at the
\* position, one ELEVATION packet; a send that raises ends the tick (outer
\* except, sleep).
TickElevation ==
    /\ tpc = "elevation"
    /\ LET elevation == GetElevationAtPosition(plugin, inside) IN
       IF plugin.capture_enabled /\ elevation # NoValue
       THEN \E sent \in 0..1 :
               /\ tickPkts' = tickPkts \o SubSeq(<<ElevationPkt(elevation)>>, 1, sent)
               /\ tpc' = IF sent = 1 THEN "border" ELSE "poll"
               /\ lastElevation' = IF sent = 1 THEN elevation ELSE lastElevation
       ELSE /\ tpc' = "border"
            /\ UNCHANGED <<tickPkts, lastElevation>>
    /\ UNCHANGED <<plugin, mouse_obj, inside, startId, events, scpc>>
    /\ UNCHANGED <<grabbed, mapRegion, lastPulse, notTickVars>>

\* A border check that does not store the new status.
TickBorder_StatusNotStored ==
    /\ tpc = "border"
    /\ \E on_screen_border \in BOOLEAN :
        IF on_screen_border # plugin.on_border
        THEN \E sent \in 0..1 :
                /\ tickPkts' = tickPkts \o
                       SubSeq(<<IF on_screen_border THEN VibrationPkt(5, 100, 0)
                                ELSE VibrationPkt(0, 0, 0)>>, 1, sent)
                /\ plugin' = plugin
        ELSE UNCHANGED <<plugin, tickPkts>>
    /\ tpc' = "poll"
    /\ UNCHANGED <<mouse_obj, inside, startId, events, scpc>>
    /\ UNCHANGED <<grabbed, mapRegion, lastPulse, lastElevation, notTickVars>>

\* The tick's border check: on a change a continuous VIBRATION or the
\* VIBRATION (0, 0, 0) that stops it, then on_border is updated; a send that
\* raises ends the tick before the update.
TickBorder ==
    /\ tpc = "border"
    /\ \E on_screen_border \in BOOLEAN :
        IF on_screen_border # plugin.on_border
        THEN \E sent \in 0..1 :
                /\ tickPkts' = tickPkts \o
                       SubSeq(<<IF on_screen_border THEN VibrationPkt(5, 100, 0)
                                ELSE VibrationPkt(0, 0, 0)>>, 1, sent)
                /\ plugin' = IF sent = 1
                             THEN [plugin EXCEPT !.on_border = on_screen_border]
                             ELSE plugin
        ELSE UNCHANGED <<plugin, tickPkts>>
    /\ tpc' = "poll"
    /\ UNCHANGED <<mouse_obj, inside, startId, events, scpc>>
    /\ UNCHANGED <<grabbed, mapRegion, lastPulse, lastElevation, notTickVars>>

\* _screen_capture_thread: if self.capture_enabled and self.image_region
CaptureCheck ==
    /\ scpc = "check"
    /\ plugin.capture_enabled
    /\ plugin.image_region # "none"
    /\ scpc' = "grab"
    /\ UNCHANGED <<plugin, tpc, mouse_obj, inside, startId, events, tickPkts>>
    /\ UNCHANGED <<grabbed, mapRegion, lastPulse, lastElevation, notTickVars>>

\* _screen_capture_thread: _capture_screen_as_depth_map(camera,
\* self.image_region), the field being read again after the check (None
\* selects the full screen).
CaptureGrab ==
    /\ scpc = "grab"
    /\ grabbed' = plugin.image_region
    /\ scpc' = "store"
    /\ UNCHANGED <<plugin, tpc, mouse_obj, inside, startId, events, tickPkts>>
    /\ UNCHANGED <<mapRegion, lastPulse, lastElevation, notTickVars>>

\* _screen_capture_thread: unless the capture gave nothing (or raised),
\* self.depth_map = new_depth_map under the lock.
CaptureStore ==
    /\ scpc = "store"
    /\ \E new_depth_map \in TickDepths \cup {NoValue} :
        IF new_depth_map = NoValue
        THEN UNCHANGED <<plugin, mapRegion>>
        ELSE /\ plugin' = [plugin EXCEPT !.depth_map = new_depth_map]
             /\ mapRegion' = IF grabbed = "none" THEN "full" ELSE grabbed
    /\ scpc' = "check"
    /\ UNCHANGED <<tpc, mouse_obj, inside, startId, events, tickPkts>>
    /\ UNCHANGED <<grabbed, lastPulse, lastElevation, notTickVars>>

TickNext ==
    \/ TickPoll
    \/ HandleImageLeave
    \/ HandleImageEnter
    \/ TickElevation
    \/ TickBorder
    \/ CaptureCheck
    \/ CaptureGrab
    \/ CaptureStore

----------------------------------------------------------------------------
(* handlers.py: GraphicHandler; and the plugin's capture region registry    *)
(* and capture scheduler that GraphicHandler registers with, after the      *)
(* design's section 4.4                                                     *)

\* GraphicHandler.ELEVATION_SCALE = 0.5
ELEVATION_SCALE == 50

\* The GraphicHandlers registered with the handler manager, in order
HandlerOrder == <<"H1", "H2">>

Handlers == {HandlerOrder[i] : i \in 1..Len(HandlerOrder)}

\* The attributes ObjectHandler.__init__ / GraphicHandler.__init__ set
GraphicHandlerAttrs == {"plugin", "filter", "effects"}

\* The graphic objects 'enter' is dispatched with: with or without a location
GraphicObjects ==
    [hwnd : {1}, child : {0}, loc : {"none", "R1", "R2"}, role : {"GRAPHIC"}, ia2 : {"absent"}]

\* The depths a captured image can have at the pointer
CaptureDepths == {0, 80}

\* GraphicHandler.capture_callback(region, image): the depth at the pointer,
\* elevation = (depth_value - 0.5) * 2.0 * ELEVATION_SCALE, send_elevation.
\* The pointer's position is scaled by self.region.width, and a handler has
\* no attribute 'region': AttributeError before the elevation is computed.
CaptureCallback(d, depth, fault) ==
    IF "region" \notin GraphicHandlerAttrs
    THEN Res(d, <<>>, <<>>, TRUE)
    ELSE SendElevation(d, ((depth - 50) * 2 * ELEVATION_SCALE) \div 100, fault)

\* plugin.add_capture_region(handler, region): one region per handler
AddCaptureRegion(regs, h, region) == [regs EXCEPT ![h] = region]

\* plugin.remove_capture_region(handler)
RemoveCaptureRegion(regs, h) == [regs EXCEPT ![h] = "none"]

\* The scheduler's point-in-time copy of the registry, in handler order
Snapshot(regs) ==
    LET hs == SelectSeq(HandlerOrder, LAMBDA h : regs[h] # "none")
    IN  [i \in 1..Len(hs) |-> [h |-> hs[i], region |-> regs[hs[i]]]]

\* A plausible slip: the callback invoked without asking the registry again.
StillRegistered_Always(regs, h) == TRUE

\* The scheduler's test before a callback: is the handler still registered
StillRegistered(regs, h) == regs[h] # "none"

\* Where the scheduler goes after an entry of the snapshot; whatever the
\* capture or the callback raised was caught and logged for that entry.
AfterEntry(raised, rest) == IF rest = <<>> THEN "end" ELSE "capture"

NoCallback ==
    [h |-> "none", region |-> "none", depth |-> NoValue, gone |-> FALSE, fault |-> {},
     hw |-> FALSE, emu |-> FALSE, uart |-> <<>>, udp |-> <<>>, raised |-> FALSE]

NoWatch == [h |-> "none", passes |-> 0, served |-> {}, steady |-> {}]

\* A handler's captures stopped being regular (its region removed, or a capture failed)
Unsteady(w, h) == [w EXCEPT !.steady = @ \ {h}]

CaptureInit ==
    /\ regions = [h \in Handlers |-> "none"]
    /\ cpc = "idle"
    /\ snapshot = <<>>
    /\ buffer = NoValue
    /\ gone = FALSE
    /\ cbCall = NoCallback
    /\ watch = NoWatch

\* The driver after initialize(): each channel connected or not.
DriverReady ==
    /\ \E hw \in BOOLEAN, emu \in BOOLEAN :
        /\ drv = [NewDriver EXCEPT !.hardware_connected = hw,
                                   !.emulator_connected = emu,
                                   !.udp_running = emu]
        /\ response = hw
        /\ timeout_count = IF hw THEN 1 ELSE 0
        /\ hsSent = IF hw THEN <<PingPkt>> ELSE <<>>
        /\ udpFirst = IF emu THEN "PING" ELSE "none"
    /\ ipc = "done"
    /\ ppc = "idle"
    /\ was_connected = FALSE
    /\ lastCall = NoCall
    /\ prevCall = [op |-> "none", a1 |-> 0]
    /\ opCount = 0
    /\ uartSent = Headers(hsSent)
    /\ terminated = FALSE
    /\ lastPing = NoPing
    /\ speedBeforePing = DefaultSpeed

driverRest == <<ipc, timeout_count, response, ppc, was_connected, lastCall,
                prevCall, opCount, uartSent, terminated, hsSent, lastPing,
                speedBeforePing, udpFirst>>

\* GraphicHandler.handle_event('enter', obj): returns at once for an object
\* without a location; otherwise registers obj.location, then the 'enter'
\* effect runs inside try/except (a vibration: the driver's fields stay).
GraphicHandlerEnter ==
    /\ \E h \in Handlers, obj \in GraphicObjects :
        regions' = IF obj.loc = "none" THEN regions
                   ELSE AddCaptureRegion(regions, h, obj.loc)
    /\ UNCHANGED <<cpc, snapshot, buffer, gone, cbCall, watch>>
    /\ UNCHANGED <<drv, driverRest>>
    /\ UNCHANGED <<filterVars, effectVars, tickVars, handlerVars, life, mgr, emulator, net, harness>>

\* GraphicHandler.handle_event('leave', obj): removes the handler's region,
\* then the 'leave' effect runs inside try/except (handler_config:
\* GlobalElevationEffect(0) first, which sets the tracked elevation).
GraphicHandlerLeave ==
    /\ \E h \in Handlers :
        /\ regions' = RemoveCaptureRegion(regions, h)
        /\ watch' = IF watch.h = "none" /\ cpc # "idle" /\ regions[h] # "none"
                    THEN [h |-> h, passes |-> 0, served |-> {},
                          steady |-> {g \in Handlers \ {h} : regions[g] # "none"}]
                    ELSE Unsteady(watch, h)
    /\ drv' = SendElevation(drv, 0, {}).drv
    /\ UNCHANGED <<cpc, snapshot, buffer, gone, cbCall>>
    /\ UNCHANGED driverRest
    /\ UNCHANGED <<filterVars, effectVars, tickVars, handlerVars, life, mgr, emulator, net, harness>>

\* The scheduler takes its snapshot; an empty registry: idle sleep.
TakeSnapshot ==
    /\ cpc = "idle"
    /\ snapshot' = Snapshot(regions)
    /\ cpc' = IF Snapshot(regions) = <<>> THEN "idle" ELSE "capture"
    /\ UNCHANGED <<regions, buffer, gone, cbCall, watch>>
    /\ UNCHANGED <<drv, driverRest>>
    /\ UNCHANGED <<filterVars, effectVars, tickVars, handlerVars, life, mgr, emulator, net, harness>>

\* The capture primitive for the entry's region: a buffer, or nothing (or an
\* exception, caught): the entry is skipped in this pass.
CaptureRegion ==
    /\ cpc = "capture"
    /\ \E image \in CaptureDepths \cup {NoValue} :
        IF image = NoValue
        THEN /\ snapshot' = Tail(snapshot)
             /\ cpc' = AfterEntry(TRUE, Tail(snapshot))
             /\ watch' = Unsteady(watch, Head(snapshot).h)
             /\ UNCHANGED buffer
        ELSE /\ buffer' = image
             /\ cpc' = "check"
             /\ UNCHANGED <<snapshot, watch>>
    /\ UNCHANGED <<regions, gone, cbCall>>
    /\ UNCHANGED <<drv, driverRest>>
    /\ UNCHANGED <<filterVars, effectVars, tickVars, handlerVars, life, mgr, emulator, net, harness>>

\* Is the entry's handler still registered: if not, skip silently.
CheckRegistered ==
    /\ cpc = "check"
    /\ gone' = (regions[Head(snapshot).h] = "none")
    /\ IF StillRegistered(regions, Head(snapshot).h)
       THEN /\ cpc' = "invoke"
            /\ UNCHANGED <<snapshot, buffer>>
       ELSE /\ snapshot' = Tail(snapshot)
            /\ cpc' = AfterEntry(FALSE, Tail(snapshot))
            /\ buffer' = NoValue
    /\ UNCHANGED <<regions, cbCall, watch>>
    /\ UNCHANGED <<drv, driverRest>>
    /\ UNCHANGED <<filterVars, effectVars, tickVars, handlerVars, life, mgr, emulator, net, harness>>

\* handler.capture_callback(region, image)
InvokeCallback ==
    /\ cpc = "invoke"
    /\ \E fault \in Faults(drv) :
        LET e == Head(snapshot)
            r == CaptureCallback(drv, buffer, fault)
        IN  /\ drv' = r.drv
            /\ cbCall' = [h |-> e.h, region |-> e.region, depth |-> buffer,
                          gone |-> gone, fault |-> fault,
                          hw |-> drv.hardware_connected, emu |-> drv.emulator_connected,
                          uart |-> r.uart, udp |-> r.udp, raised |-> r.raised]
            /\ cpc' = AfterEntry(r.raised, Tail(snapshot))
            /\ watch' = IF watch.h = "none" THEN watch
                        ELSE [watch EXCEPT !.served = @ \cup {e.h}]
    /\ snapshot' = Tail(snapshot)
    /\ buffer' = NoValue
    /\ UNCHANGED <<regions, gone>>
    /\ UNCHANGED driverRest
    /\ UNCHANGED <<filterVars, effectVars, tickVars, handlerVars, life, mgr, emulator, net, harness>>

\* The pass is over: sleep, then the next snapshot.
EndPass ==
    /\ cpc = "end"
    /\ cpc' = "idle"
    /\ watch' = IF watch.h = "none" \/ watch.passes = 2 THEN watch
                ELSE [watch EXCEPT !.passes = @ + 1]
    /\ UNCHANGED <<regions, snapshot, buffer, gone, cbCall>>
    /\ UNCHANGED <<drv, driverRest>>
    /\ UNCHANGED <<filterVars, effectVars, tickVars, handlerVars, life, mgr, emulator, net, harness>>

CaptureNext ==
    \/ GraphicHandlerEnter
    \/ GraphicHandlerLeave
    \/ TakeSnapshot
    \/ CaptureRegion
    \/ CheckRegistered
    \/ InvokeCallback
    \/ EndPass

----------------------------------------------------------------------------
(* handlers.py: the handlers and the dispatch over them *)

\* The NVDA event names dispatched to the object handlers
HandlerEvents == {"enter", "leave", "gainFocus"}

\* The objects an event is dispatched for: a graphic with or without a
\* location, and an object that is no graphic.
DispatchObjects ==
    [hwnd : {1}, child : {0}, loc : {"none", "R1"}, role : {"GRAPHIC"}, ia2 : {"absent"}]
    \cup [hwnd : {1}, child : {0}, loc : {"R1"}, role : {"BUTTON"}, ia2 : {"absent"}]

\* The handlers that can be registered: the two GraphicHandlers of the capture
\* registry (filter GraphicFilter, effects for 'enter' and 'leave') and a plain
\* ObjectHandler (filter ObjectFilter, effects for 'enter' and 'gainFocus').
HandlerPool ==
    {[class |-> "GraphicHandler", id |-> h, filter |-> GraphicFilter,
      effects |-> {"enter", "leave"}] : h \in Handlers}
    \cup {[class |-> "ObjectHandler", id |-> "O1", filter |-> ObjectFilter,
           effects |-> {"enter", "gainFocus"}]}

\* ObjectHandler.matches(obj): the handler's filter decides.
HandlerMatches(h, obj) == FilterMatches(h.filter, obj)

\* ObjectHandler.handle_event(event_name, obj): the effect registered for the
\* event, if any, is called inside try/except: an exception of the effect is
\* logged and not passed on.  The trace records each step with the capture
\* registry as it is when the step is taken.
ObjectHandleEvent(h, event_name, regs, effectRaises) ==
    [regs |-> regs,
     trace |-> IF event_name \in h.effects
               THEN <<[step |-> "effect", regs |-> regs, raises |-> effectRaises]>>
               ELSE <<>>,
     raised |-> FALSE]

\* A GraphicHandler that runs the effect before it touches the registry.
GraphicHandleEvent_EffectFirst(h, event_name, obj, regs, effectRaises, regFails) ==
    LET base == ObjectHandleEvent(h, event_name, regs, effectRaises)
        r1 == IF event_name = "enter" /\ obj.loc # "none" /\ ~regFails
              THEN AddCaptureRegion(regs, h.id, obj.loc)
              ELSE IF event_name = "leave" /\ ~regFails
                   THEN RemoveCaptureRegion(regs, h.id)
                   ELSE regs
    IN  [regs |-> r1,
         trace |-> base.trace \o
                   (IF event_name \in {"enter", "leave"}
                    THEN <<[step |-> "registry", regs |-> r1, raises |-> regFails]>>
                    ELSE <<>>),
         raised |-> regFails /\ event_name \in {"enter", "leave"}]

\* GraphicHandler.handle_event(event_name, obj): 'enter' returns at once for an
\* object without a location, else plugin.add_capture_region(self,
\* obj.location); 'leave' calls plugin.remove_capture_region(self); both calls
\* are outside any try, so a failure there leaves handle_event as an
\* exception.  Then the parent's handle_event runs the effect.
GraphicHandleEvent(h, event_name, obj, regs, effectRaises, regFails) ==
    IF event_name = "enter" /\ obj.loc = "none"
    THEN [regs |-> regs, trace |-> <<>>, raised |-> FALSE]
    ELSE IF event_name \in {"enter", "leave"}
    THEN IF regFails
         THEN [regs |-> regs,
               trace |-> <<[step |-> "registry", regs |-> regs, raises |-> TRUE]>>,
               raised |-> TRUE]
         ELSE LET r1 == IF event_name = "enter"
                        THEN AddCaptureRegion(regs, h.id, obj.loc)
                        ELSE RemoveCaptureRegion(regs, h.id)
                  base == ObjectHandleEvent(h, event_name, r1, effectRaises)
              IN  [regs |-> r1,
                   trace |-> <<[step |-> "registry", regs |-> r1, raises |-> FALSE]>>
                             \o base.trace,
                   raised |-> base.raised]
    ELSE ObjectHandleEvent(h, event_name, regs, effectRaises)

\* handle_event of a handler of either class
HandleEvent(h, event_name, obj, regs, effectRaises, regFails) ==
    IF h.class = "GraphicHandler"
    THEN GraphicHandleEvent(h, event_name, obj, regs, effectRaises, regFails)
    ELSE ObjectHandleEvent(h, event_name, regs, effectRaises)

\* The effects of the ScreenBorderHandler in each globalHandlerList, as the
\* send_vibration(amplitude, frequency, duration) call the effect makes:
\* handler_config.py and handler_list.py.
GlobalHandlerLists ==
    {[border_enter |-> <<10, 200, 0>>, border_leave |-> <<0, 0, 0>>],
     [border_enter |-> <<10, 200, 0>>, border_leave |-> <<5, 100, 0>>]}

\* GlobalHandler.trigger_event(event_name): the effect for the event, if any,
\* is called inside try/except; calls: the send_vibration call it makes.
TriggerEvent(effects, event_name, effectRaises) ==
    [fired |-> IF event_name \in DOMAIN effects THEN <<event_name>> ELSE <<>>,
     calls |-> IF event_name \in DOMAIN effects /\ ~effectRaises
               THEN <<effects[event_name]>> ELSE <<>>,
     raised |-> FALSE]

\* GlobalHandler.__call__(): "pass".  ScreenBorderHandler does not override
\* it, so calling the handler changes nothing and fires nothing.
GlobalHandlerCall(h, on_screen_border) == [handler |-> h, fired |-> <<>>, calls |-> <<>>]

\* ScreenBorderHandler.run(): the border check.  A change of the border
\* status is stored and triggers border_enter or border_leave.
ScreenBorderHandlerRun(h, on_screen_border) ==
    IF on_screen_border # h.on_border
    THEN LET r == TriggerEvent(h.effects,
                               IF on_screen_border THEN "border_enter"
                               ELSE "border_leave", FALSE)
         IN  [handler |-> [h EXCEPT !.on_border = on_screen_border],
              fired |-> r.fired, calls |-> r.calls]
    ELSE [handler |-> h, fired |-> <<>>, calls |-> <<>>]

RECURSIVE DispatchLoop_ShortCircuit(_, _, _, _, _, _, _)
\* A dispatch that stops at the first handler whose handle_event raises.
DispatchLoop_ShortCircuit(hs, k, event_name, obj, regs, raising, failing) ==
    IF k > Len(hs) THEN [regs |-> regs, called |-> <<>>, raised |-> {}]
    ELSE IF ~HandlerMatches(hs[k], obj)
    THEN DispatchLoop_ShortCircuit(hs, k + 1, event_name, obj, regs, raising, failing)
    ELSE LET r == HandleEvent(hs[k], event_name, obj, regs,
                              hs[k].id \in raising, hs[k].id \in failing)
             rest == IF r.raised THEN [regs |-> r.regs, called |-> <<>>, raised |-> {}]
                     ELSE DispatchLoop_ShortCircuit(hs, k + 1, event_name, obj,
                                                    r.regs, raising, failing)
         IN  [regs |-> rest.regs, called |-> <<k>> \o rest.called,
              raised |-> (IF r.raised THEN {k} ELSE {}) \cup rest.raised]

RECURSIVE DispatchLoop(_, _, _, _, _, _, _)
\* dispatch_object_event(event_name, obj), from handler k on: the registered
\* handlers in registration order; each one that matches obj has its
\* handle_event called, and a handler that raises does not stop the others.
DispatchLoop(hs, k, event_name, obj, regs, raising, failing) ==
    IF k > Len(hs) THEN [regs |-> regs, called |-> <<>>, raised |-> {}]
    ELSE IF ~HandlerMatches(hs[k], obj)
    THEN DispatchLoop(hs, k + 1, event_name, obj, regs, raising, failing)
    ELSE LET r == HandleEvent(hs[k], event_name, obj, regs,
                              hs[k].id \in raising, hs[k].id \in failing)
             rest == DispatchLoop(hs, k + 1, event_name, obj, r.regs, raising, failing)
         IN  [regs |-> rest.regs, called |-> <<k>> \o rest.called,
              raised |-> (IF r.raised THEN {k} ELSE {}) \cup rest.raised]

\* No handle_event / trigger_event call has just ended
NoHCall == [op |-> "none"]

\* No dispatch has just ended
NoDispatch == [op |-> "none"]

\* The handler part at rest: nothing registered
HandlerIdle ==
    /\ handlers = <<>>
    /\ sbh = [on_border |-> FALSE,
              effects |-> [border_enter |-> <<10, 200, 0>>, border_leave |-> <<0, 0, 0>>]]
    /\ hCall = NoHCall
    /\ dispatch = NoDispatch

\* HandlerManager after populate: the handlers of the pool, each once, in
\* some registration order; the ScreenBorderHandler of one of the two
\* globalHandlerLists with on_border False.
HandlerInit ==
    /\ handlers \in {s \in [1..Cardinality(HandlerPool) -> HandlerPool] :
                        \A i, j \in 1..Len(s) : s[i] = s[j] => i = j}
    /\ \E effects \in GlobalHandlerLists : sbh = [on_border |-> FALSE, effects |-> effects]
    /\ hCall = NoHCall
    /\ dispatch = NoDispatch

notHandlerVars ==
    <<filterVars, effectVars, driverVars, tickVars,
      cpc, snapshot, buffer, gone, cbCall, watch, life, mgr, emulator, net, harness>>

\* handler.handle_event(event_name, obj) on one handler
CallHandleEvent ==
    /\ \E h \in HandlerPool, e \in HandlerEvents, obj \in DispatchObjects,
          effectRaises \in BOOLEAN, regFails \in BOOLEAN :
        LET r == HandleEvent(h, e, obj, regions, effectRaises, regFails)
        IN  /\ hCall' = [op |-> "handle_event", handler |-> h, event_name |-> e,
                         obj |-> obj, before |-> regions, after |-> r.regs,
                         effectRaises |-> effectRaises, regFails |-> regFails,
                         trace |-> r.trace, raised |-> r.raised]
            /\ regions' = r.regs
    /\ dispatch' = NoDispatch
    /\ UNCHANGED <<handlers, sbh, notHandlerVars>>

\* handler.trigger_event(event_name) on the ScreenBorderHandler
CallTriggerEvent ==
    /\ \E e \in {"border_enter", "border_leave", "other"}, effectRaises \in BOOLEAN :
        LET r == TriggerEvent(sbh.effects, e, effectRaises)
        IN  hCall' = [op |-> "trigger_event", event_name |-> e,
                      effectRaises |-> effectRaises, fired |-> r.fired,
                      calls |-> r.calls, raised |-> r.raised]
    /\ dispatch' = NoDispatch
    /\ UNCHANGED <<handlers, sbh, regions, notHandlerVars>>

\* dispatch_object_event(event_name, obj) over the registered handlers: the
\* effects all raise or none does, and the registry fails for some handlers.
DispatchObjectEvent ==
    /\ \E e \in HandlerEvents, obj \in DispatchObjects,
          raising \in {{}, {"H1", "H2", "O1"}}, failing \in SUBSET Handlers :
        LET r == DispatchLoop(handlers, 1, e, obj, regions, raising, failing)
        IN  /\ dispatch' = [op |-> "object_event", event_name |-> e, obj |-> obj,
                            called |-> r.called, raised |-> r.raised]
            /\ regions' = r.regs
    /\ hCall' = NoHCall
    /\ UNCHANGED <<handlers, sbh, notHandlerVars>>

\* dispatch_tick(): every registered GlobalHandler is called once.  The
\* pointer is on the screen border or not.
DispatchTick ==
    /\ \E on_screen_border \in BOOLEAN :
        LET r == GlobalHandlerCall(sbh, on_screen_border)
        IN  /\ dispatch' = [op |-> "tick", on_screen_border |-> on_screen_border,
                            was_on_border |-> sbh.on_border,
                            called |-> <<"ScreenBorderHandler">>, fired |-> r.fired,
                            calls |-> r.calls]
            /\ sbh' = r.handler
    /\ hCall' = NoHCall
    /\ UNCHANGED <<handlers, regions, notHandlerVars>>

\* ScreenBorderHandler.run() called by name
RunScreenBorderHandler ==
    /\ \E on_screen_border \in BOOLEAN :
        LET r == ScreenBorderHandlerRun(sbh, on_screen_border)
        IN  /\ dispatch' = [op |-> "run", on_screen_border |-> on_screen_border,
                            was_on_border |-> sbh.on_border,
                            called |-> <<"ScreenBorderHandler">>, fired |-> r.fired,
                            calls |-> r.calls]
            /\ sbh' = r.handler
    /\ hCall' = NoHCall
    /\ UNCHANGED <<handlers, regions, notHandlerVars>>

HandlerNext ==
    \/ CallHandleEvent
    \/ CallTriggerEvent
    \/ DispatchObjectEvent
    \/ DispatchTick
    \/ RunScreenBorderHandler

----------------------------------------------------------------------------
(* touchpoint.py: GlobalPlugin from construction to terminate *)

\* GlobalPlugin.__init__: enabled True, uart None, no thread started; the
\* initialization thread is at its first statement and terminate has not
\* been called.
LifeInit ==
    life = [enabled |-> TRUE, uart |-> "none", spc |-> "open", response |-> FALSE,
            timeout_count |-> 0, capture_thread |-> "none", mouse_thread |-> "none",
            term |-> "no"]

notLifeVars ==
    <<filterVars, effectVars, driverVars, tickVars, captureVars, handlerVars, mgr, emulator, net, harness>>

\* _initialize_async: self.uart = SongbirdUART(...); uart.begin(port, baud).
\* A failed begin sets enabled False and ends the initialization.
StartupOpen ==
    /\ life.spc = "open"
    /\ \E ok \in BOOLEAN :
        life' = IF ok THEN [life EXCEPT !.uart = "open", !.spc = "wait"]
                ELSE [life EXCEPT !.uart = "closed", !.enabled = FALSE, !.spc = "done"]
    /\ UNCHANGED notLifeVars

\* _wait_for_ping: one turn of the loop, wait_for_header(H_PING, 1000)
StartupWaitForHeader ==
    /\ life.spc = "wait"
    /\ WaitLoopContinues(life.response, life.timeout_count)
    /\ \E got \in BOOLEAN :
        life' = [life EXCEPT !.response = got, !.timeout_count = @ + 1]
    /\ UNCHANGED notLifeVars

\* _wait_for_ping with a response: the PING is acknowledged; _initialize_async
\* then sends the elevation speed.  On a port that terminate has closed the
\* send succeeds or raises, and the except clause sets enabled False.
StartupAck ==
    /\ life.spc = "wait"
    /\ ~WaitLoopContinues(life.response, life.timeout_count)
    /\ life.response
    /\ \E raises \in (IF life.uart = "closed" THEN BOOLEAN ELSE {FALSE}) :
        life' = IF raises THEN [life EXCEPT !.enabled = FALSE, !.spc = "done"]
                ELSE [life EXCEPT !.spc = "threads"]
    /\ UNCHANGED notLifeVars

\* _wait_for_ping without a response after the last attempt: it raises, and
\* the except clause of _initialize_async sets enabled False.
StartupTimeout ==
    /\ life.spc = "wait"
    /\ ~WaitLoopContinues(life.response, life.timeout_count)
    /\ ~life.response
    /\ life' = [life EXCEPT !.enabled = FALSE, !.spc = "done"]
    /\ UNCHANGED notLifeVars

\* _initialize_async: the capture thread and the mouse tracking thread start.
StartupStartThreads ==
    /\ life.spc = "threads"
    /\ life' = [life EXCEPT !.capture_thread = "running", !.mouse_thread = "running",
                            !.spc = "done"]
    /\ UNCHANGED notLifeVars

\* _screen_capture_thread / _mouse_tracking_thread: "while self.enabled" is
\* evaluated; the thread goes round once more or leaves its loop.
LoopCheck ==
    /\ \E t \in {"capture_thread", "mouse_thread"} :
        /\ life[t] = "running"
        /\ life' = IF life.enabled THEN life ELSE [life EXCEPT ![t] = "exited"]
    /\ UNCHANGED notLifeVars

\* terminate(), in two steps: self.enabled = False; then "if self.uart:
\* self.uart.close()", which closes nothing while self.uart is still None.
PluginTerminate ==
    /\ \/ /\ life.term = "no"
          /\ life' = [life EXCEPT !.enabled = FALSE, !.term = "flag"]
       \/ /\ life.term = "flag"
          /\ life' = [life EXCEPT !.uart = IF @ = "none" THEN "none" ELSE "closed",
                                  !.term = "done"]
    /\ UNCHANGED notLifeVars

LifeNext ==
    \/ StartupOpen
    \/ StartupWaitForHeader
    \/ StartupAck
    \/ StartupTimeout
    \/ StartupStartThreads
    \/ LoopCheck
    \/ PluginTerminate

----------------------------------------------------------------------------
(* handlers.py: HandlerManager instances *)

\* No HandlerManager constructed yet.  lists: the list objects, "default"
\* being the one list object that is the default value of the parameter
\* 'handlers' of HandlerManager.__init__, and list m the list passed to
\* manager m; plugin: each handler's plugin attribute (ObjectHandler.__init__
\* sets None); added: the handlers add_handler was called with, per manager;
\* start: the length of self.handlers when the constructor returned.
ManagerInit ==
    mgr = [lists |-> [l \in {"default", "M1", "M2"} |-> <<>>],
           of |-> [m \in {"M1", "M2"} |->
                      [made |-> FALSE, plugin |-> "None", list |-> "none", start |-> 0]],
           plugin |-> [h \in {"h1", "h2", "h3"} |-> "None"],
           added |-> [m \in {"M1", "M2"} |-> {}]]

\* HandlerManager(plugin) or HandlerManager(plugin, []): self.plugin = plugin;
\* self.handlers = handlers, the very list object that was passed or, with no
\* argument, the default list object of the function.
ConstructManager ==
    /\ \E m \in {"M1", "M2"}, p \in {"P1", "P2"}, explicit \in BOOLEAN :
        /\ ~mgr.of[m].made
        /\ LET l == IF explicit THEN m ELSE "default"
           IN  mgr' = [mgr EXCEPT !.of[m] = [made |-> TRUE, plugin |-> p, list |-> l,
                                             start |-> Len(mgr.lists[l])]]
    /\ UNCHANGED <<filterVars, effectVars, driverVars, tickVars, captureVars,
                   handlerVars, life, emulator, net, harness>>

\* manager.add_handler(handler): self.handlers.append(handler);
\* handler.set_plugin(self.plugin).  populate(handler_list) is add_handler
\* for each handler of the list in turn.  Each handler is added once.
AddHandler ==
    /\ \E m \in {"M1", "M2"}, handler \in {"h1", "h2", "h3"} :
        /\ mgr.of[m].made
        /\ \A o \in {"M1", "M2"} : handler \notin mgr.added[o]
        /\ mgr' = [mgr EXCEPT !.lists[mgr.of[m].list] = Append(@, handler),
                              !.plugin[handler] = mgr.of[m].plugin,
                              !.added[m] = @ \cup {handler}]
    /\ UNCHANGED <<filterVars, effectVars, driverVars, tickVars, captureVars,
                   handlerVars, life, emulator, net, harness>>

ManagerNext ==
    \/ ConstructManager
    \/ AddHandler

----------------------------------------------------------------------------
(* hardware_emulator.py: TouchpointEmulator, and HardwareDriver's side of   *)
(* the UDP channel with the packets taken from and put on the network       *)

\* TouchpointEmulator.__init__: addon_connected and hardware_connected False;
\* pings: the PINGs sent so far (counted up to MaxInFlight).  Nothing is in
\* flight; built: the packets the driver's PING handler has built and not
\* yet sent; lastStatus: the value of the last STATUS packet sent.
EmulatorInit ==
    /\ emulator = [addon_connected |-> FALSE, hardware_connected |-> FALSE, pings |-> 0]
    /\ net = [toAddon |-> 0, toEmu |-> <<>>, built |-> <<>>, lastStatus |-> NoValue]

\* A plausible slip: the PING sent once, not repeated.
EmulatorPingLoop_Once ==
    /\ ~emulator.addon_connected
    /\ emulator.pings = 0
    /\ emulator' = [emulator EXCEPT !.pings = IF @ < MaxInFlight THEN @ + 1 ELSE @]
    /\ net' = [net EXCEPT !.toAddon = IF @ < MaxInFlight THEN @ + 1 ELSE @]
    /\ UNCHANGED <<filterVars, effectVars, driverVars, tickVars, captureVars,
                   handlerVars, life, mgr, harness>>

\* _ping_loop: while the addon is not connected a PING is sent every 2 s.
\* A packet sent while MaxInFlight are in flight is dropped.
EmulatorPingLoop ==
    /\ ~emulator.addon_connected
    /\ emulator' = [emulator EXCEPT !.pings = IF @ < MaxInFlight THEN @ + 1 ELSE @]
    /\ net' = [net EXCEPT !.toAddon = IF @ < MaxInFlight THEN @ + 1 ELSE @]
    /\ UNCHANGED <<filterVars, effectVars, driverVars, tickVars, captureVars,
                   handlerVars, life, mgr, harness>>

\* A PING reaches the driver's listener or is lost.  _handle_emulator_ping up
\* to the point where the STATUS packet is built: was_connected,
\* emulator_connected = True, the PING ack is sent, pkt.write_uint8(1 if
\* self.hardware_connected else 0).  The handler runs when the network has
\* room for the packets it sends (sendto blocks, it does not drop).
HandlePing ==
    /\ net.toAddon > 0
    /\ drv.udp_running
    /\ ppc = "idle"
    /\ \E lost \in BOOLEAN :
        IF lost
        THEN /\ net' = [net EXCEPT !.toAddon = @ - 1]
             /\ UNCHANGED <<drv, ppc, was_connected, udpFirst>>
        ELSE LET d1 == [drv EXCEPT !.emulator_connected = TRUE]
                 sends == HandleEmulatorPingSends(d1, drv.emulator_connected, 0)
             IN  /\ was_connected' = drv.emulator_connected
                 /\ drv' = d1
                 /\ Len(net.toEmu) + Len(sends) <= MaxInFlight
                 /\ net' = [net EXCEPT !.toAddon = @ - 1,
                                       !.toEmu = Append(@, sends[1]),
                                       !.built = Tail(sends)]
                 /\ ppc' = "status"
                 /\ udpFirst' = FirstUdp(udpFirst, sends)
    /\ UNCHANGED <<ipc, timeout_count, response, lastCall, prevCall, speedBeforePing, opCount,
                   uartSent, terminated, hsSent, lastPing>>
    /\ UNCHANGED <<filterVars, effectVars, tickVars, captureVars, handlerVars, life, mgr,
                   emulator, harness>>

\* _handle_emulator_ping, the rest: the STATUS packet built before is sent,
\* then on a new connection the elevation speed.
HandlePingSend ==
    /\ ppc = "status"
    /\ ppc' = "idle"
    /\ net' = [net EXCEPT !.toEmu = @ \o net.built,
                          !.built = <<>>,
                          !.lastStatus = net.built[1].v1]
    /\ UNCHANGED <<drv, ipc, timeout_count, response, was_connected, lastCall, prevCall, speedBeforePing,
                   opCount, uartSent, terminated, hsSent, lastPing>>
    /\ UNCHANGED <<filterVars, effectVars, tickVars, captureVars, handlerVars, life, mgr,
                   emulator, harness>>
    /\ UNCHANGED udpFirst

\* initialize, from the return of _wait_for_ping: hardware_connected is set
\* to the handshake's result and _send_status_to_emulator() sends it if the
\* emulator is connected (when the network has room for it).
FinishInitialize ==
    /\ ipc = "wait"
    /\ ipc' = "done"
    /\ \E hw \in BOOLEAN :
        LET d1 == [drv EXCEPT !.hardware_connected = hw]
            status == SendStatusToEmulator(d1, {})
        IN  /\ Len(net.toEmu) + Len(net.built) + Len(status) <= MaxInFlight
            /\ drv' = d1
            /\ net' = [net EXCEPT !.toEmu = @ \o status,
                                  !.lastStatus = IF status = <<>> THEN @ ELSE status[1].v1]
            /\ udpFirst' = FirstUdp(udpFirst, status)
    /\ UNCHANGED <<timeout_count, response, ppc, was_connected, lastCall, prevCall, speedBeforePing,
                   opCount, uartSent, terminated, hsSent, lastPing>>
    /\ UNCHANGED <<filterVars, effectVars, tickVars, captureVars, handlerVars, life, mgr,
                   emulator, harness>>

\* The oldest packet in flight to the emulator arrives or is lost:
\* _handle_ping sets addon_connected, _handle_status sets hardware_connected
\* from the packet's value.
DeliverToEmulator ==
    /\ net.toEmu # <<>>
    /\ net' = [net EXCEPT !.toEmu = Tail(@)]
    /\ \E lost \in BOOLEAN :
        LET pkt == Head(net.toEmu)
        IN  emulator' = IF lost THEN emulator
                   ELSE IF pkt.h = "PING" THEN [emulator EXCEPT !.addon_connected = TRUE]
                   ELSE IF pkt.h = "STATUS"
                        THEN [emulator EXCEPT !.hardware_connected = (pkt.v1 = 1)]
                   ELSE emulator
    /\ UNCHANGED <<filterVars, effectVars, driverVars, tickVars, captureVars,
                   handlerVars, life, mgr, harness>>

EmulatorNext ==
    \/ EmulatorPingLoop
    \/ HandlePing
    \/ HandlePingSend
    \/ FinishInitialize
    \/ DeliverToEmulator

----------------------------------------------------------------------------
(* testing/mouse_emulator_test.py: the mouse and button packet handlers,    *)
(* which run on the UART reader's thread, and the main loop                 *)

\* mouse_handler: if x_move > 127: x_move = x_move - 256
ToSigned(byte) == IF byte > 127 THEN byte - 256 ELSE byte

\* The movement bytes a mouse packet carries
MoveBytes == {0, 1, 128, 255}

\* The module's globals (accumulated_x, accumulated_y, button_state_changed,
\* button_state), main's locals (x, y, btn_changed, btn_state) and where main
\* is in its loop; the movements of the well-formed packets received and the
\* movements applied with moveRel, summed; whether a malformed packet has
\* come; the button action applied last and the one before it.
HarnessInit ==
    harness = [accumulated_x |-> 0, accumulated_y |-> 0,
               button_state_changed |-> FALSE, button_state |-> FALSE,
               x |-> 0, y |-> 0, btn_changed |-> FALSE, btn_state |-> FALSE,
               mpc |-> "take", packets |-> 0, malformed |-> FALSE,
               received_x |-> 0, received_y |-> 0, applied_x |-> 0, applied_y |-> 0,
               applied_btn |-> "none", prev_btn |-> "none"]

\* A plausible slip: the movement stored, not added.
MouseHandler_Overwrites ==
    /\ harness.packets < MaxPackets
    /\ \E len \in 1..3, x_move \in MoveBytes, y_move \in MoveBytes :
        harness' = IF len # 2
                   THEN [harness EXCEPT !.packets = @ + 1, !.malformed = TRUE]
                   ELSE [harness EXCEPT !.packets = @ + 1,
                                        !.accumulated_x = ToSigned(x_move),
                                        !.accumulated_y = ToSigned(y_move),
                                        !.received_x = @ + ToSigned(x_move),
                                        !.received_y = @ + ToSigned(y_move)]
    /\ UNCHANGED <<filterVars, effectVars, driverVars, tickVars, captureVars,
                   handlerVars, life, mgr, emulator, net>>

\* mouse_handler(pkt): a payload that is not 2 bytes long is discarded;
\* otherwise the two bytes are read as signed movements and added to the
\* accumulators under mouse_lock.
MouseHandler ==
    /\ harness.packets < MaxPackets
    /\ \E len \in 1..3, x_move \in MoveBytes, y_move \in MoveBytes :
        harness' = IF len # 2
                   THEN [harness EXCEPT !.packets = @ + 1, !.malformed = TRUE]
                   ELSE [harness EXCEPT !.packets = @ + 1,
                                        !.accumulated_x = @ + ToSigned(x_move),
                                        !.accumulated_y = @ + ToSigned(y_move),
                                        !.received_x = @ + ToSigned(x_move),
                                        !.received_y = @ + ToSigned(y_move)]
    /\ UNCHANGED <<filterVars, effectVars, driverVars, tickVars, captureVars,
                   handlerVars, life, mgr, emulator, net>>

\* button_handler(pkt): a payload that is not 1 byte long is discarded;
\* otherwise button_state = bool(byte) and button_state_changed = True, under
\* mouse_lock.
ButtonHandler ==
    /\ harness.packets < MaxPackets
    /\ \E len \in 1..2, byte \in {0, 1} :
        harness' = IF len # 1
                   THEN [harness EXCEPT !.packets = @ + 1]
                   ELSE [harness EXCEPT !.packets = @ + 1,
                                        !.button_state = (byte # 0),
                                        !.button_state_changed = TRUE]
    /\ UNCHANGED <<filterVars, effectVars, driverVars, tickVars, captureVars,
                   handlerVars, life, mgr, emulator, net>>

\* main, the loop's 'with mouse_lock' block: the accumulators and the button
\* flags are copied to locals, the accumulators and button_state_changed
\* reset.
MainTake ==
    /\ harness.mpc = "take"
    /\ harness' = [harness EXCEPT !.x = harness.accumulated_x,
                                  !.y = harness.accumulated_y,
                                  !.accumulated_x = 0,
                                  !.accumulated_y = 0,
                                  !.btn_changed = harness.button_state_changed,
                                  !.btn_state = harness.button_state,
                                  !.button_state_changed = FALSE,
                                  !.mpc = "apply"]
    /\ UNCHANGED <<filterVars, effectVars, driverVars, tickVars, captureVars,
                   handlerVars, life, mgr, emulator, net>>

\* main, the rest of the loop's body, outside the lock: moveRel(x, y) if
\* either is not 0; mouseDown() or mouseUp() if btn_changed.
MainApply ==
    /\ harness.mpc = "apply"
    /\ harness' = [harness EXCEPT
                     !.applied_x = IF harness.x # 0 \/ harness.y # 0
                                   THEN @ + harness.x ELSE @,
                     !.applied_y = IF harness.x # 0 \/ harness.y # 0
                                   THEN @ + harness.y ELSE @,
                     !.x = 0,
                     !.y = 0,
                     !.prev_btn = IF harness.btn_changed THEN harness.applied_btn ELSE @,
                     !.applied_btn = IF ~harness.btn_changed THEN @
                                     ELSE IF harness.btn_state THEN "down" ELSE "up",
                     !.mpc = "take"]
    /\ UNCHANGED <<filterVars, effectVars, driverVars, tickVars, captureVars,
                   handlerVars, life, mgr, emulator, net>>

HarnessNext ==
    \/ MouseHandler
    \/ ButtonHandler
    \/ MainTake
    \/ MainApply

----------------------------------------------------------------------------
(* Specifications: one per part of the program, the other parts at rest *)

\* The filter part at rest
FilterIdle ==
    /\ fCall = "none"
    /\ fFilter = ObjectFilter
    /\ fObj = NoObj
    /\ fResult = TRUE

\* The effect part at rest
EffectIdle ==
    /\ eCall = "none"
    /\ eEffects = <<>>
    /\ eInvoked = <<>>
    /\ eRaised = FALSE

InitFilter == FilterInit /\ EffectIdle /\ DriverInit /\ TickInit /\ CaptureInit /\ HandlerIdle /\ LifeInit /\ ManagerInit
        /\ EmulatorInit /\ HarnessInit

SpecFilter == InitFilter /\ [][FilterNext]_vars

InitEffect == FilterIdle /\ EffectInit /\ DriverInit /\ TickInit /\ CaptureInit /\ HandlerIdle /\ LifeInit /\ ManagerInit
        /\ EmulatorInit /\ HarnessInit

SpecEffect == InitEffect /\ [][EffectNext]_vars

InitDriver == FilterIdle /\ EffectIdle /\ DriverInit /\ TickInit /\ CaptureInit /\ HandlerIdle /\ LifeInit /\ ManagerInit
        /\ EmulatorInit /\ HarnessInit

SpecDriver == InitDriver /\ [][DriverNext]_vars

InitTick == FilterIdle /\ EffectIdle /\ DriverInit /\ TickInit /\ CaptureInit /\ HandlerIdle /\ LifeInit /\ ManagerInit
        /\ EmulatorInit /\ HarnessInit

SpecTick == InitTick /\ [][TickNext]_vars

InitCapture == FilterIdle /\ EffectIdle /\ DriverReady /\ TickInit /\ CaptureInit /\ HandlerIdle /\ LifeInit /\ ManagerInit
        /\ EmulatorInit /\ HarnessInit

SpecCapture == InitCapture /\ [][CaptureNext]_vars

InitHandler == FilterIdle /\ EffectIdle /\ DriverInit /\ TickInit /\ CaptureInit /\ HandlerInit /\ LifeInit /\ ManagerInit
        /\ EmulatorInit /\ HarnessInit

SpecHandler == InitHandler /\ [][HandlerNext]_vars

InitLife == FilterIdle /\ EffectIdle /\ DriverInit /\ TickInit /\ CaptureInit /\ HandlerIdle /\ LifeInit /\ ManagerInit
        /\ EmulatorInit /\ HarnessInit

SpecLife == InitLife /\ [][LifeNext]_vars

InitManager == FilterIdle /\ EffectIdle /\ DriverInit /\ TickInit /\ CaptureInit /\ HandlerIdle /\ LifeInit /\ ManagerInit
        /\ EmulatorInit /\ HarnessInit

SpecManager == InitManager /\ [][ManagerNext]_vars

\* HardwareDriver after _initialize_udp has started the listener and
\* uart.begin has opened the port: the UART handshake is in progress.
InitEmulator ==
    /\ FilterIdle /\ EffectIdle /\ TickInit /\ CaptureInit /\ HandlerIdle /\ LifeInit
    /\ ManagerInit /\ EmulatorInit /\ HarnessInit
    /\ drv = [NewDriver EXCEPT !.udp_running = TRUE]
    /\ ipc = "wait"
    /\ timeout_count = 0
    /\ response = FALSE
    /\ ppc = "idle"
    /\ was_connected = FALSE
    /\ lastCall = NoCall
    /\ prevCall = [op |-> "none", a1 |-> 0]
    /\ opCount = 0
    /\ uartSent = {}
    /\ terminated = FALSE
    /\ hsSent = <<>>
    /\ lastPing = NoPing
    /\ speedBeforePing = DefaultSpeed
    /\ udpFirst = "none"

\* Packet delivery is fair: the emulator's loop and the driver's handler keep
\* running, and a PING or a PING ack that is sent again and again is not
\* lost every time.
SpecEmulator ==
    /\ InitEmulator
    /\ [][EmulatorNext]_vars
    /\ WF_vars(EmulatorPingLoop)
    /\ SF_vars(HandlePing /\ ppc' = "status")
    /\ WF_vars(HandlePingSend)
    /\ WF_vars(DeliverToEmulator)
    /\ SF_vars(DeliverToEmulator /\ Head(net.toEmu).h = "PING" /\ emulator'.addon_connected)

InitHarness ==
    /\ FilterIdle /\ EffectIdle /\ DriverInit /\ TickInit /\ CaptureInit /\ HandlerIdle
    /\ LifeInit /\ ManagerInit /\ EmulatorInit /\ HarnessInit

SpecHarness == InitHarness /\ [][HarnessNext]_vars

----------------------------------------------------------------------------
(* C1: in the tick loop, whenever the tracked object id changes from A's id *)
(* to B's id within one tick, a 'leave' for A and then an 'enter' for B are *)
(* dispatched in that tick with nothing in between; and in every tick where *)
(* the id under the pointer equals the tracked id, neither 'enter' nor      *)
(* 'leave' is dispatched.                                                   *)
C1_LeaveThenEnterOnIdChange ==
    /\ (startId # NoId /\ plugin.current_image_id # NoId
            /\ plugin.current_image_id # startId) =>
           events = <<Event("leave", startId), Event("enter", plugin.current_image_id)>>
    /\ GetObjectId(mouse_obj) = startId => events = <<>>

(* C2: a ComboEffect calls its sub-effects in list order; when sub-effect   *)
(* k raises, no later one is invoked and the failure propagates out of the  *)
(* combo; when none raises, all run exactly once each, in order.            *)
C2_ComboEffectOrder ==
    eCall = "done" =>
        LET n == Len(eEffects)
            failing == {k \in 1..n : EffectCall(eEffects[k])}
        IN  IF failing = {}
            THEN /\ eInvoked = [k \in 1..n |-> k]
                 /\ ~eRaised
            ELSE LET first == CHOOSE k \in failing : \A j \in failing : k <= j
                 IN  /\ eInvoked = [k \in 1..first |-> k]
                     /\ eRaised

\* Three sub-effects, the second a nested combo that raises: the third was
\* not invoked and the call raised.
C2_Witness ==
    /\ eCall = "done"
    /\ Len(eEffects) = 3
    /\ ~EffectCall(eEffects[1])
    /\ eEffects[2].kind = "ComboEffect"
    /\ EffectCall(eEffects[2])
    /\ ~EffectCall(eEffects[3])
    /\ eInvoked = <<1, 2>>
    /\ eRaised

----------------------------------------------------------------------------
(* C3: a combo filter matches iff every include filter matches and no      *)
(* exclude filter matches; an empty include list does not reject and an    *)
(* empty exclude list does not veto.                                       *)
C3_ComboFilterIff ==
    fCall \in {"object", "global"} =>
        /\ fResult = ( /\ \A i \in 1..Len(fFilter.include) :
                              FilterMatches(fFilter.include[i], fObj)
                       /\ ~ \E j \in 1..Len(fFilter.exclude) :
                              FilterMatches(fFilter.exclude[j], fObj) )
        /\ (fFilter.include = <<>> =>
               fResult = ~ \E j \in 1..Len(fFilter.exclude) :
                              FilterMatches(fFilter.exclude[j], fObj))
        /\ (fFilter.exclude = <<>> =>
               fResult = \A i \in 1..Len(fFilter.include) :
                              FilterMatches(fFilter.include[i], fObj))

\* A combo with both lists non-empty was vetoed by its exclude list alone.
C3_Witness ==
    /\ fCall = "object"
    /\ Len(fFilter.include) = 2
    /\ Len(fFilter.exclude) = 2
    /\ \A i \in 1..2 : FilterMatches(fFilter.include[i], fObj)
    /\ FilterMatches(fFilter.exclude[2], fObj)
    /\ ~FilterMatches(fFilter.exclude[1], fObj)
    /\ fResult = FALSE

----------------------------------------------------------------------------
\* The driver as the last public call found it
PreDriver ==
    [NewDriver EXCEPT !.hardware_connected = lastCall.hw,
                      !.emulator_connected = lastCall.emu,
                      !.elevation = lastCall.elevation]

(* C4: send_vibration(0, 0, 0) is not suppressed: with a working transport  *)
(* it transmits one VIBRATION (0, 0, 0) packet on every connected channel,  *)
(* and under every transport condition it transmits on exactly the         *)
(* channels a call with non-zero arguments would.                          *)
C4_ZeroVibrationSent ==
    (lastCall.op = "send_vibration" /\ lastCall.a1 = 0 /\ lastCall.a2 = 0 /\ lastCall.a3 = 0) =>
        /\ (lastCall.fault = {} =>
               /\ lastCall.uart = IF lastCall.hw THEN <<VibrationPkt(0, 0, 0)>> ELSE <<>>
               /\ lastCall.udp = IF lastCall.emu THEN <<VibrationPkt(0, 0, 0)>> ELSE <<>>)
        /\ LET nonzero == SendVibration(PreDriver, 10, 200, 0, lastCall.fault) IN
               /\ Len(lastCall.uart) = Len(nonzero.uart)
               /\ Len(lastCall.udp) = Len(nonzero.udp)
               /\ lastCall.raised = nonzero.raised
        /\ \A i \in 1..Len(lastCall.uart) : lastCall.uart[i] = VibrationPkt(0, 0, 0)
        /\ \A i \in 1..Len(lastCall.udp) : lastCall.udp[i] = VibrationPkt(0, 0, 0)

\* send_vibration(0, 0, 0) went out on both channels.
C4_Witness ==
    /\ lastCall.op = "send_vibration"
    /\ lastCall.a1 = 0 /\ lastCall.a2 = 0 /\ lastCall.a3 = 0
    /\ lastCall.hw /\ lastCall.emu
    /\ lastCall.uart = <<VibrationPkt(0, 0, 0)>>
    /\ lastCall.udp = <<VibrationPkt(0, 0, 0)>>

\* The UART handshake ended without a PING after the port had opened.
HandshakeTimedOut ==
    /\ ipc \in {"status", "done"}
    /\ ~response
    /\ timeout_count > 0

(* C5: when no PING is ever delivered, _wait_for_ping makes at most 10     *)
(* attempts and then returns failure; the UART channel is not connected    *)
(* and no packet is transmitted on it afterwards, whatever is called.      *)
C5_HandshakeTimeoutSilencesUart ==
    /\ timeout_count <= MaxPingAttempts
    /\ (ipc = "wait" /\ ~response /\ timeout_count = MaxPingAttempts =>
            /\ ~ENABLED WaitForHeader
            /\ ENABLED HandshakeTimeout)
    /\ (HandshakeTimedOut =>
            /\ timeout_count = MaxPingAttempts
            /\ ~drv.hardware_connected
            /\ uartSent = {}
            /\ lastCall.uart = <<>>)

\* After a timed-out handshake two sends were made, the last one reaching the
\* emulator only.
C5_Witness ==
    /\ HandshakeTimedOut
    /\ ipc = "done"
    /\ opCount = 2
    /\ lastCall.op \in {"send_elevation", "send_vibration"}
    /\ lastCall.emu
    /\ Len(lastCall.udp) = 1
    /\ lastCall.uart = <<>>

C7_RoundTripAnyConnectionState ==
    (lastCall.op = "add_elevation_offset" /\ prevCall.op = "send_elevation") =>
        /\ drv.elevation = prevCall.a1 + lastCall.a1
        /\ (lastCall.hw => lastCall.uart = <<ElevationPkt(prevCall.a1 + lastCall.a1)>>)
        /\ (lastCall.emu => lastCall.udp = <<ElevationPkt(prevCall.a1 + lastCall.a1)>>)

(* C8: after the pointer entered a graphic object with valid bounds and a  *)
(* capture region was registered, a capture pass that samples depth d at   *)
(* the pointer makes the capture callback transmit exactly one ELEVATION   *)
(* packet with value (d - 0.5) * 2 * ELEVATION_SCALE, which lies within    *)
(* [-ELEVATION_SCALE, +ELEVATION_SCALE] (0.3 for depth 0.8 and scale 0.5). *)
C8_CaptureCallbackSendsElevation ==
    (cbCall.h # "none" /\ cbCall.fault = {}) =>
        LET elevation == ((cbCall.depth - 50) * 2 * ELEVATION_SCALE) \div 100 IN
        /\ ~cbCall.raised
        /\ cbCall.hw => cbCall.uart = <<ElevationPkt(elevation)>>
        /\ cbCall.emu => cbCall.udp = <<ElevationPkt(elevation)>>
        /\ -ELEVATION_SCALE <= elevation /\ elevation <= ELEVATION_SCALE
        /\ cbCall.depth = 80 => elevation = 30

(* C9: every public send operation is best-effort: a transport failure is  *)
(* caught inside the driver, the call returns normally and the connection  *)
(* flags are unchanged.                                                    *)
C9_SendsNeverRaise ==
    [][lastCall' # lastCall =>
          /\ ~lastCall'.raised
          /\ drv'.hardware_connected = drv.hardware_connected
          /\ drv'.emulator_connected = drv.emulator_connected]_vars

(* C10: send_elevation and send_vibration transmit exactly one packet on   *)
(* each connected channel and none on the others; with no channel          *)
(* connected the command is dropped without error; a UART transport        *)
(* failure does not keep the command from a connected UDP channel.         *)
C10_FanOutIndependent ==
    lastCall.op \in {"send_elevation", "send_vibration"} =>
        /\ Len(lastCall.uart) = (IF lastCall.hw /\ "uart" \notin lastCall.fault THEN 1 ELSE 0)
        /\ Len(lastCall.udp) = (IF lastCall.emu /\ "udp" \notin lastCall.fault THEN 1 ELSE 0)
        /\ (~lastCall.hw /\ ~lastCall.emu => ~lastCall.raised)

(* C11: when a PING arrives within the retry ceiling during initialize,   *)
(* the driver transmits a PING acknowledgement on UART, the UART channel   *)
(* becomes connected, and the current max elevation speed is transmitted   *)
(* as an ELEVATION_SPEED packet with guaranteed delivery as part of that   *)
(* handshake.                                                              *)
C11_HandshakeSuccessPushesSpeed ==
    (ipc \in {"status", "done"} /\ response) =>
        /\ hsSent = <<PingPkt, SpeedPkt(drv.max_elevation_speed, TRUE)>>
        /\ (~terminated => drv.hardware_connected)

\* The first PING of the emulator was handled with a working transport.
FirstPingHandled ==
    /\ lastPing # NoPing
    /\ ~lastPing.was_connected
    /\ lastPing.failing = 0

(* C12: the first inbound PING sets emulator_connected and the driver then  *)
(* sends on UDP, in this order, a PING ack, a STATUS packet with the       *)
(* current hardware-connection flag and an ELEVATION_SPEED packet with the *)
(* current max elevation speed; every later PING leaves emulator_connected *)
(* and all other driver state unchanged and does not resend the            *)
(* ELEVATION_SPEED packet.                                                 *)
C12_EmulatorPingHandshake ==
    /\ [](lastPing # NoPing =>
            /\ drv.emulator_connected
            /\ (FirstPingHandled =>
                   lastPing.sent = <<PingPkt, StatusPkt(drv.hardware_connected),
                                     SpeedPkt(drv.max_elevation_speed, FALSE)>>)
            /\ (lastPing.was_connected =>
                   /\ \A i \in 1..Len(lastPing.sent) :
                          lastPing.sent[i].h # "ELEVATION_SPEED"
                   /\ (lastPing.failing = 0 =>
                          lastPing.sent = <<PingPkt, StatusPkt(drv.hardware_connected)>>)))
    /\ [][ppc' # ppc =>
            /\ drv'.emulator_connected
            /\ [drv' EXCEPT !.emulator_connected = drv.emulator_connected] = drv
            /\ (ppc = "respond" \/ drv.emulator_connected => drv' = drv)
            /\ UNCHANGED <<ipc, timeout_count, response, uartSent, hsSent, terminated>>]_vars

\* A later PING was answered, with the hardware connected: ack and status only.
C12_Witness ==
    /\ lastPing # NoPing
    /\ lastPing.was_connected
    /\ lastPing.failing = 0
    /\ drv.hardware_connected
    /\ lastPing.sent = <<PingPkt, StatusPkt(TRUE)>>

(* C13: connection flags never revert during a session: once              *)
(* hardware_connected or emulator_connected is True it stays True in every *)
(* later state before terminate, whatever sends fail and whatever further  *)
(* PINGs arrive.                                                           *)
C13_FlagsNeverRevert ==
    [][~terminated' =>
          /\ (drv.hardware_connected => drv'.hardware_connected)
          /\ (drv.emulator_connected => drv'.emulator_connected)]_vars

\* Both channels are still connected right after a send that failed on both.
C13_Witness ==
    /\ ~terminated
    /\ lastCall.op = "send_elevation"
    /\ lastCall.hw /\ lastCall.emu
    /\ lastCall.fault = {"uart", "udp"}
    /\ lastCall.raised
    /\ drv.hardware_connected
    /\ drv.emulator_connected

(* C18: set_max_elevation_speed(speed) transmits an ELEVATION_SPEED packet *)
(* carrying speed on each connected channel, with guaranteed delivery on   *)
(* UART, and completes without error in every connection state.            *)
C18_SetMaxElevationSpeedFansOut ==
    (lastCall.op = "set_max_elevation_speed" /\ lastCall.fault = {}) =>
        /\ ~lastCall.raised
        /\ lastCall.uart = IF lastCall.hw THEN <<SpeedPkt(lastCall.a1, TRUE)>> ELSE <<>>
        /\ lastCall.udp = IF lastCall.emu THEN <<SpeedPkt(lastCall.a1, FALSE)>> ELSE <<>>

----------------------------------------------------------------------------
(* C14: for every handler and every event, handle_event (object handlers)   *)
(* and trigger_event (global handlers) return normally: no exception        *)
(* reaches the caller, whether the effect raises or the GraphicHandler's    *)
(* capture-region registration fails.                                       *)
C14_HandlersNeverRaise ==
    hCall.op \in {"handle_event", "trigger_event"} => ~hCall.raised

(* C15: dispatch_object_event calls handle_event on exactly the registered  *)
(* handlers whose filter matches the object, once each, in registration     *)
(* order, and a handler that raises does not stop the later ones.           *)
C15_DispatchExactlyMatchingInOrder ==
    dispatch.op = "object_event" =>
        /\ \A i \in 1..Len(dispatch.called) :
              /\ dispatch.called[i] \in 1..Len(handlers)
              /\ HandlerMatches(handlers[dispatch.called[i]], dispatch.obj)
              /\ \A j \in 1..Len(dispatch.called) :
                    i < j => dispatch.called[i] < dispatch.called[j]
        /\ \A k \in 1..Len(handlers) :
              HandlerMatches(handlers[k], dispatch.obj)
                  => \E i \in 1..Len(dispatch.called) : dispatch.called[i] = k

\* C15's case: the first matching handler raised and a later one was called.
C15_Witness ==
    /\ dispatch.op = "object_event"
    /\ Len(dispatch.called) >= 2
    /\ dispatch.called[1] \in dispatch.raised

(* C16: on every tick every GlobalHandler is called once, and calling the   *)
(* ScreenBorderHandler performs the border check: a change of the border    *)
(* status fires border_enter or border_leave.                               *)
C16_TickRunsBorderCheck ==
    dispatch.op = "tick" =>
        /\ dispatch.called = <<"ScreenBorderHandler">>
        /\ (dispatch.on_screen_border # dispatch.was_on_border
              => dispatch.fired = <<IF dispatch.on_screen_border
                                    THEN "border_enter" ELSE "border_leave">>)

(* C17: GraphicHandler.handle_event registers the capture region (handler,  *)
(* object's bounds) before the 'enter' effect runs, removes the handler's   *)
(* region before the 'leave' effect runs, and leaves the registry unchanged *)
(* for any other event.                                                     *)
C17_RegistryBeforeEffect ==
    (/\ hCall.op = "handle_event"
     /\ hCall.handler.class = "GraphicHandler"
     /\ ~hCall.regFails
     /\ hCall.obj.loc # "none")
    => LET h == hCall.handler.id
           want == IF hCall.event_name = "enter" THEN hCall.obj.loc
                   ELSE IF hCall.event_name = "leave" THEN "none"
                   ELSE hCall.before[h]
       IN  /\ hCall.after = [hCall.before EXCEPT ![h] = want]
           /\ \A i \in 1..Len(hCall.trace) :
                 hCall.trace[i].step = "effect" => hCall.trace[i].regs[h] = want

\* C17's case: an 'enter' whose effect ran with a region newly registered.
C17_Witness ==
    /\ hCall.op = "handle_event"
    /\ hCall.handler.class = "GraphicHandler"
    /\ hCall.event_name = "enter"
    /\ ~hCall.regFails
    /\ hCall.before[hCall.handler.id] # hCall.obj.loc
    /\ hCall.after[hCall.handler.id] = hCall.obj.loc
    /\ \E i \in 1..Len(hCall.trace) : hCall.trace[i].step = "effect"

(* C19: Filter.matches is total and side-effect free, and returns false     *)
(* for an absent object.                                                    *)
C19_AbsentObjectNeverMatches ==
    (fCall = "object" /\ fObj = NoObj) => fResult = FALSE

(* C20: after terminate has been called, the tick loop and the capture loop *)
(* exit, also when terminate comes while the startup handshake is still in  *)
(* progress, and the channels are closed.  Stated for the states in which   *)
(* terminate and the startup have both run to their end.                    *)
C20_TerminateStopsLoopsAndClosesChannels ==
    (life.term = "done" /\ life.spc = "done")
    => /\ life.uart # "open"
       /\ life.capture_thread = "running" => ~life.enabled
       /\ life.mouse_thread = "running" => ~life.enabled

(* C21: when the serial port cannot be opened or the UART handshake times   *)
(* out, only the UART channel becomes inactive: the plugin still starts and *)
(* keeps running its tick loop and its capture loop.  Stated for the states *)
(* in which the startup has ended and terminate has not been called.        *)
C21_StartupFailureKeepsLoopsRunning ==
    (life.spc = "done" /\ life.term = "no")
    => /\ life.enabled
       /\ life.capture_thread = "running"
       /\ life.mouse_thread = "running"

(* C22: under every interleaving of the capture loop with the tick loop's   *)
(* enter / leave processing, the capture loop calls the screen capture only *)
(* with the bounds of a registered region: it never captures the full       *)
(* screen because the region was cleared between its check and its use.     *)
C22_CaptureOnlyRegisteredRegion == grabbed # "none"

(* C23: at the end of every tick, capture is enabled if and only if a       *)
(* capture region is set if and only if a tracked object is set; the one    *)
(* region is the bounds of the tracked object as recorded at its 'enter',   *)
(* and a new 'enter' replaces the previous region.                          *)
C23_CaptureRegionLifecycle ==
    tpc = "poll" =>
        /\ plugin.capture_enabled <=> plugin.image_region # "none"
        /\ plugin.image_region # "none" <=> plugin.current_image_obj # NoObj
        /\ plugin.current_image_obj # NoObj =>
              /\ plugin.image_region = plugin.current_image_obj.loc
              /\ plugin.current_image_id = GetObjectId(plugin.current_image_obj)

\* C23's case: a tick that left one image and entered another has ended with
\* the new image's region set.
C23_Witness ==
    /\ tpc = "poll"
    /\ Len(events) = 2
    /\ events[1].ev = "leave"
    /\ events[2].ev = "enter"
    /\ plugin.capture_enabled
    /\ plugin.image_region = mouse_obj.loc
    /\ events[1].id[3] # plugin.image_region

(* C24: after every tick the tracked object and its id are the object under *)
(* the pointer resolved in that tick and its id (unset when there is no     *)
(* object), whether or not a transition event was dispatched and whether or *)
(* not anything matched the object.                                         *)
C24_TrackedIsObjectUnderPointer ==
    tpc = "poll" =>
        /\ plugin.current_image_obj = mouse_obj
        /\ plugin.current_image_id = GetObjectId(mouse_obj)

(* C25: for every pointer position, on or outside the region's edge         *)
(* included, the depth is sampled at a clamped coordinate and an elevation  *)
(* is sent for it: the sample is never skipped because the pointer is       *)
(* outside the region.  A tick that has capture enabled and a depth map     *)
(* sends an ELEVATION packet unless the send itself fails.                  *)
C25_SampleNeverSkipped ==
    [][(/\ tpc = "elevation"
        /\ tpc' # "elevation"
        /\ plugin.capture_enabled
        /\ plugin.depth_map # NoValue)
       => (tpc' = "poll" \/ Len(tickPkts') = Len(tickPkts) + 1)]_vars

(* C26: screen-border events fire only on a change of the pointer's         *)
(* on-border status and strictly alternate, starting with border_enter: the *)
(* remembered status starts False and changes exactly when an event is      *)
(* emitted, to True with the continuous vibration of border_enter and to    *)
(* False with the zero vibration of border_leave; nothing is emitted while  *)
(* the status stays as remembered.                                          *)
C26_BorderEventsAlternate ==
    /\ ~plugin.on_border
    /\ [][IF tpc = "border"
          THEN \/ /\ tickPkts' = tickPkts
                  /\ plugin'.on_border = plugin.on_border
               \/ /\ tickPkts' = Append(tickPkts, VibrationPkt(5, 100, 0))
                  /\ ~plugin.on_border
                  /\ plugin'.on_border
               \/ /\ tickPkts' = Append(tickPkts, VibrationPkt(0, 0, 0))
                  /\ plugin.on_border
                  /\ ~plugin'.on_border
          ELSE plugin'.on_border = plugin.on_border]_vars

\* C26's case: a tick has just emitted border_leave, after an earlier
\* border_enter.
C26_Witness ==
    /\ tpc = "poll"
    /\ tickPkts # <<>>
    /\ tickPkts[Len(tickPkts)] = VibrationPkt(0, 0, 0)
    /\ ~plugin.on_border

(* C27: every continuous vibration started when the pointer reaches the     *)
(* screen border is ended when it leaves the border: in every configured    *)
(* handler list the command sent on border_leave is a vibration of          *)
(* amplitude 0.                                                             *)
C27_BorderLeaveStopsVibration ==
    (dispatch.op = "run" /\ dispatch.fired = <<"border_leave">>)
    => /\ Len(dispatch.calls) = 1
       /\ dispatch.calls[1][1] = 0

(* C28: after any sequence of add_handler / populate calls on any number of *)
(* HandlerManager instances, every handler in a manager's list was added to *)
(* that manager and has its plugin equal to that manager's coordinator, and *)
(* a manager constructed without an explicit list starts with an empty      *)
(* list.                                                                    *)
C28_HandlerOwnership ==
    \A m \in {"M1", "M2"} :
        mgr.of[m].made =>
            /\ mgr.of[m].start = 0
            /\ \A i \in 1..Len(mgr.lists[mgr.of[m].list]) :
                  LET h == mgr.lists[mgr.of[m].list][i]
                  IN  /\ h \in mgr.added[m]
                      /\ mgr.plugin[h] = mgr.of[m].plugin

(* C29: if the addon's UDP listener and the emulator are both running and   *)
(* packet delivery is fair, then eventually the driver has                  *)
(* emulator_connected = True and the emulator has addon_connected = True,   *)
(* and both stay so; every PING the driver's handler takes is answered     *)
(* with a PING ack.                                                         *)
C29_EmulatorHandshakeLiveness ==
    /\ <>[](drv.emulator_connected /\ emulator.addon_connected)
    /\ [][(ppc = "idle" /\ ppc' = "status")
            => /\ Len(net'.toEmu) = Len(net.toEmu) + 1
               /\ net'.toEmu[Len(net'.toEmu)].h = "PING"]_vars

\* C29's case: both sides are connected after the emulator had to send its
\* PING more than once.
C29_Witness ==
    /\ drv.emulator_connected
    /\ emulator.addon_connected
    /\ emulator.pings >= 2

(* C30: under every interleaving of initialize (running the UART handshake) *)
(* with the emulator PING callback, once initialize has returned, the       *)
(* callback has ended and the emulator is connected, the last STATUS packet *)
(* sent to the emulator carries the driver's final hardware_connected.      *)
C30_LastStatusIsFinal ==
    (ipc = "done" /\ ppc = "idle" /\ drv.emulator_connected)
    => net.lastStatus = (IF drv.hardware_connected THEN 1 ELSE 0)

(* C31: the ELEVATION_SPEED packet sent on the emulator's first PING carries *)
(* the value of the last set_max_elevation_speed call made before that PING, *)
(* or the default if there was none.                                         *)
C31_SpeedPushedIsLastConfigured ==
    (lastPing # NoPing /\ ~lastPing.was_connected /\ lastPing.failing = 0)
    => lastPing.sent[Len(lastPing.sent)] = SpeedPkt(speedBeforePing, FALSE)

(* C32: nothing is transmitted on a channel before its handshake: the first  *)
(* packet sent on the UDP channel is the PING ack, sent after an emulator    *)
(* PING, and the first packet sent on the UART channel is the PING ack of    *)
(* _wait_for_ping.                                                           *)
C32_NoPacketBeforeHandshake ==
    /\ udpFirst \in {"none", "PING"}
    /\ udpFirst # "none" => drv.emulator_connected
    /\ uartSent # {} => (hsSent # <<>> /\ hsSent[1] = PingPkt)

(* C33: a send_elevation, add_elevation_offset, send_vibration or            *)
(* set_max_elevation_speed call made after terminate has returned transmits  *)
(* nothing and attempts nothing on either channel.                           *)
C33_NoSendAfterTerminate ==
    [][(terminated /\ opCount' = opCount + 1)
        => /\ lastCall'.uart = <<>>
           /\ lastCall'.udp = <<>>
           /\ lastCall'.fault = {}]_vars

(* C34: under every interleaving of the capture thread and the tracking      *)
(* thread, a depth-derived elevation is transmitted only from a depth map    *)
(* captured from the region of the image now tracked.                        *)
C34_ElevationFromTrackedRegion ==
    [][(tpc = "elevation" /\ tickPkts' # tickPkts) => mapRegion = plugin.image_region]_vars

(* C35: the enter pulse and the leave pulse transmitted by the coordinator  *)
(* strictly alternate, starting with an enter pulse, also over ticks where  *)
(* the entered object has no usable location or reading it fails.           *)
C35_ImagePulsesAlternate ==
    [][/\ (tpc \in {"enter", "switch_enter"} /\ Len(tickPkts') > Len(tickPkts))
          => lastPulse # "enter"
       /\ (tpc \in {"leave", "switch"} /\ Len(tickPkts') > Len(tickPkts))
          => lastPulse = "enter"]_vars

(* C36: depth-derived ELEVATION packets are transmitted only while an image *)
(* is tracked and capture is enabled, and while no image is tracked after a *)
(* leave the ELEVATION packet transmitted last carries 0.0.                 *)
C36_ElevationZeroOffImage ==
    /\ (/\ tpc = "border"
        /\ tickPkts # <<>>
        /\ tickPkts[Len(tickPkts)].h = "ELEVATION"
        /\ (Len(tickPkts) = 1 \/ tickPkts[Len(tickPkts) - 1] # VibrationPkt(5, 100, 2)))
       => (plugin.current_image_obj # NoObj /\ plugin.capture_enabled)
    /\ plugin.current_image_obj = NoObj => lastElevation \in {NoValue, 0}

(* C37: mouse-movement accumulation loses and duplicates nothing: under     *)
(* every interleaving of the mouse-packet handler with the main loop, the   *)
(* movements applied by the main loop (those it has taken from the          *)
(* accumulators to apply included) plus the movement still held in the      *)
(* accumulators equal the movements of all well-formed mouse packets        *)
(* received, for x and for y; between two passes of the main loop the       *)
(* applied movements plus the accumulators alone do.  A malformed packet    *)
(* counts for nothing and leaves the accumulators unchanged.                *)
C37_MovementConserved ==
    /\ harness.applied_x + harness.x + harness.accumulated_x = harness.received_x
    /\ harness.applied_y + harness.y + harness.accumulated_y = harness.received_y
    /\ harness.mpc = "take" =>
          /\ harness.applied_x + harness.accumulated_x = harness.received_x
          /\ harness.applied_y + harness.accumulated_y = harness.received_y

\* C37's case: a malformed packet has come, a movement has been applied, the
\* main loop holds a movement it took, and a packet that came after it took
\* it is in the accumulators.
C37_Witness ==
    /\ harness.malformed
    /\ harness.mpc = "apply"
    /\ harness.x # 0
    /\ harness.accumulated_x # 0
    /\ harness.received_x # 0

(* C38: the button actions the main loop applies strictly alternate between *)
(* press and release: mouseDown is never applied twice without a mouseUp in *)
(* between, and mouseUp never twice without a mouseDown in between.         *)
C38_ButtonActionsAlternate ==
    harness.applied_btn # "none" => harness.applied_btn # harness.prev_btn


=============================================================================
